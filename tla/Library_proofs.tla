---------------------------- MODULE Library_proofs ----------------------------
(***************************************************************************)
(* Theorems about the recipe library and the AI bartender, for any scenes,  *)
(* users and replies of the model: the daily quota, the best answer, the    *)
(* pictures that recipes show, and the favorites that follow them.         *)
(***************************************************************************)
EXTENDS Bartender, FiniteSetTheorems, TLAPS

\* Requests that make the model generate, and the steps of their talk with it.
Ordering(r) == Ask(r).kind \in {"generate", "regenerate"}
Talking == {"attempt", "consume", "compare", "record"}
\* What kinds of requests come to the steps that several kinds share.
Place(kind, pc) ==
  /\ pc \in Talking => kind \in {"generate", "regenerate"}
  /\ pc = "upload" => kind \in {"create", "update"}
  /\ pc \in {"insert", "favorite", "repoint"} => kind \in {"create", "update", "prepare"}
\* A request never comes back to its beginning.
Lands(kind, pc) == Place(kind, pc) /\ pc # "new"

\* What the record of every request has.
Fits(q) == /\ "pc" \in DOMAIN q /\ "c" \in DOMAIN q /\ "row" \in DOMAIN q
           /\ "fav" \in DOMAIN q /\ "rest" \in DOMAIN q /\ "round" \in DOMAIN q
RunShape ==
  /\ runs = [r \in Requests |-> runs[r]]
  /\ \A r \in Requests : Fits(runs[r]) /\ Place(Ask(r).kind, runs[r].pc)

\* One request takes a step.
Moves(r) ==
  /\ runs' = [s \in Requests |-> runs'[s]]
  /\ \A s \in Requests \ {r} : runs'[s] = runs[s]
  /\ Fits(runs'[r]) /\ Lands(Ask(r).kind, runs'[r].pc)

LEMMA GoStep ==
  ASSUME RunShape, NEW r \in Requests, NEW q, Go(r, q), Fits(q), Lands(Ask(r).kind, q.pc)
  PROVE  Moves(r) /\ runs'[r] = q
  BY DEF Go, Moves, Lands, RunShape

LEMMA ToStep ==
  ASSUME RunShape, NEW r \in Requests, NEW pc, To(r, pc), Lands(Ask(r).kind, pc)
  PROVE  /\ Moves(r) /\ runs'[r].pc = pc /\ runs'[r].c = runs[r].c /\ runs'[r].row = runs[r].row
         /\ runs'[r].fav = runs[r].fav /\ runs'[r].rest = runs[r].rest
<1>1. PICK q : q = [runs[r] EXCEPT !.pc = pc]
  OBVIOUS
<1>2. /\ Fits(q) /\ q.pc = pc /\ q.c = runs[r].c /\ q.row = runs[r].row
      /\ q.fav = runs[r].fav /\ q.rest = runs[r].rest
  BY <1>1 DEF Fits, RunShape
<1>3. Go(r, q)
  BY <1>1 DEF To
<1>4. QED
  BY <1>2, <1>3, GoStep

LEMMA PrepareFindDoes ==
  ASSUME RunShape, NEW r \in Requests, PrepareFind(r)
  PROVE  Moves(r) /\ Ask(r).kind = "prepare" /\ runs'[r].pc \in {"done", "refused", "insert"}
<1>1. Ask(r).kind = "prepare"
  BY DEF PrepareFind, Starts, At
<1>2. (\E pc \in {"refused", "insert"} : To(r, pc)) \/ \E c : Go(r, [Idle EXCEPT !.pc = "done", !.c = c])
  BY DEF PrepareFind
<1>3. ASSUME NEW c, Go(r, [Idle EXCEPT !.pc = "done", !.c = c])
      PROVE  Moves(r) /\ runs'[r].pc = "done"
  <2>1. PICK q : q = [Idle EXCEPT !.pc = "done", !.c = c]
    OBVIOUS
  <2>2. Fits(q) /\ q.pc = "done" /\ Go(r, q)
    BY <1>3, <2>1 DEF Fits, Idle
  <2>3. QED
    BY <2>2, GoStep DEF Lands, Place, Talking
<1>4. QED
  BY <1>1, <1>2, <1>3, ToStep DEF Lands, Place, Talking

LEMMA InsertDoes ==
  ASSUME RunShape, NEW r \in Requests, Insert(r)
  PROVE  /\ Moves(r) /\ Ask(r).kind \in {"create", "update", "prepare"}
         /\ \/ runs'[r].pc = "failed" /\ disk' = Without(r) /\ UNCHANGED <<cocktails, photo>>
            \/ \E c \in Slots :
                 /\ cocktails[c] = Null /\ cocktails' = [cocktails EXCEPT ![c] = Made(r)]
                 /\ runs'[r].c = c /\ runs'[r].pc \in {"favorite", "done"}
<1>1. Ask(r).kind \in {"create", "update", "prepare"}
  BY DEF Insert, RunShape, Place
<1>2. CASE Ask(r).user \notin users
  <2>1. To(r, "failed") /\ disk' = Without(r) /\ UNCHANGED <<cocktails, photo>>
    BY <1>2 DEF Insert
  <2>2. QED
    BY <1>1, <2>1, ToStep DEF Lands, Place, Talking
<1>3. CASE Ask(r).user \in users
  <2>1. PICK c \in Slots :
          /\ cocktails[c] = Null /\ cocktails' = [cocktails EXCEPT ![c] = Made(r)]
          /\ Go(r, [runs[r] EXCEPT !.c = c, !.pc = IF Made(r).parent \in Externals THEN "favorite" ELSE "done"])
    BY <1>3 DEF Insert
  <2>2. PICK pc \in {"favorite", "done"} : Go(r, [runs[r] EXCEPT !.c = c, !.pc = pc])
    BY <2>1
  <2>3. PICK q : q = [runs[r] EXCEPT !.c = c, !.pc = pc]
    OBVIOUS
  <2>4. Fits(q) /\ q.pc = pc /\ q.c = c /\ Go(r, q)
    BY <2>2, <2>3 DEF Fits, RunShape
  <2>5. Moves(r) /\ runs'[r] = q
    BY <1>1, <2>4, GoStep DEF Lands, Place, Talking
  <2>6. QED
    BY <1>1, <2>1, <2>4, <2>5
<1>4. QED
  BY <1>2, <1>3

\* A row is read: the record of the request is made anew.
LEMMA ReadStep ==
  ASSUME RunShape, NEW r \in Requests, NEW pc, NEW c, NEW row,
         Go(r, [Idle EXCEPT !.pc = pc, !.c = c, !.row = row]), Lands(Ask(r).kind, pc)
  PROVE  Moves(r) /\ runs'[r].pc = pc /\ runs'[r].c = c /\ runs'[r].row = row
<1>1. PICK q : q = [Idle EXCEPT !.pc = pc, !.c = c, !.row = row]
  OBVIOUS
<1>2. Fits(q) /\ q.pc = pc /\ q.c = c /\ q.row = row /\ Go(r, q)
  BY <1>1 DEF Fits, Idle
<1>3. QED
  BY <1>2, GoStep

\* The record keeps what it says of a cocktail.
LEMMA FavStep ==
  ASSUME RunShape, NEW r \in Requests, NEW pc, NEW fav,
         Go(r, [runs[r] EXCEPT !.fav = fav, !.pc = pc]), Lands(Ask(r).kind, pc)
  PROVE  /\ Moves(r) /\ runs'[r].pc = pc /\ runs'[r].c = runs[r].c /\ runs'[r].row = runs[r].row
         /\ runs'[r].fav = fav
<1>1. PICK q : q = [runs[r] EXCEPT !.fav = fav, !.pc = pc] /\ Go(r, q)
  OBVIOUS
<1>2. Fits(q) /\ q.pc = pc /\ q.c = runs[r].c /\ q.row = runs[r].row /\ q.fav = fav
  BY <1>1 DEF Fits, RunShape
<1>3. QED
  BY <1>1, <1>2, GoStep

LEMMA FavNextStep ==
  ASSUME RunShape, NEW r \in Requests, NEW pc, NEW fav,
         Go(r, [runs[r] EXCEPT !.pc = pc, !.fav = fav]), Lands(Ask(r).kind, pc)
  PROVE  /\ Moves(r) /\ runs'[r].pc = pc /\ runs'[r].c = runs[r].c /\ runs'[r].row = runs[r].row
         /\ runs'[r].fav = fav
<1>1. PICK q : q = [runs[r] EXCEPT !.pc = pc, !.fav = fav] /\ Go(r, q)
  OBVIOUS
<1>2. Fits(q) /\ q.pc = pc /\ q.c = runs[r].c /\ q.row = runs[r].row /\ q.fav = fav
  BY <1>1 DEF Fits, RunShape
<1>3. QED
  BY <1>1, <1>2, GoStep

LEMMA RoundStep ==
  ASSUME RunShape, NEW r \in Requests, NEW pc, NEW round,
         Go(r, [runs[r] EXCEPT !.pc = pc, !.round = round]),
         Lands(Ask(r).kind, pc)
  PROVE  Moves(r) /\ runs'[r].pc = pc /\ runs'[r].c = runs[r].c /\ runs'[r].row = runs[r].row
<1>1. PICK q : q = [runs[r] EXCEPT !.pc = pc, !.round = round] /\ Go(r, q)
  OBVIOUS
<1>2. Fits(q) /\ q.pc = pc /\ q.c = runs[r].c /\ q.row = runs[r].row
  BY <1>1 DEF Fits, RunShape
<1>3. QED
  BY <1>1, <1>2, GoStep

LEMMA RowStep ==
  ASSUME RunShape, NEW r \in Requests, NEW pc, NEW row,
         Go(r, [runs[r] EXCEPT !.row = row, !.pc = pc]), Lands(Ask(r).kind, pc)
  PROVE  Moves(r) /\ runs'[r].pc = pc /\ runs'[r].c = runs[r].c /\ runs'[r].row = row
<1>1. PICK q : q = [runs[r] EXCEPT !.row = row, !.pc = pc] /\ Go(r, q)
  OBVIOUS
<1>2. Fits(q) /\ q.pc = pc /\ q.c = runs[r].c /\ q.row = row
  BY <1>1 DEF Fits, RunShape
<1>3. QED
  BY <1>1, <1>2, GoStep

LEMMA RestStep ==
  ASSUME RunShape, NEW r \in Requests, NEW rest, Go(r, [runs[r] EXCEPT !.rest = rest]), runs[r].pc # "new"
  PROVE  /\ Moves(r) /\ runs'[r].pc = runs[r].pc /\ runs'[r].c = runs[r].c
         /\ runs'[r].row = runs[r].row /\ runs'[r].rest = rest
<1>1. PICK q : q = [runs[r] EXCEPT !.rest = rest] /\ Go(r, q)
  OBVIOUS
<1>2. Fits(q) /\ q.pc = runs[r].pc /\ q.c = runs[r].c /\ q.row = runs[r].row /\ q.rest = rest
  BY <1>1 DEF Fits, RunShape
<1>3. QED
  BY <1>1, <1>2, GoStep DEF RunShape, Lands

\* Forks and imports move the favorite, and an import the rating.
LEMMA MigrationDoes ==
  ASSUME RunShape, NEW r \in Requests,
         \/ MigrateRead(r) \/ MigrateSave(r) \/ MoveRead(r) \/ MoveFind(r) \/ MoveStore(r) \/ MoveRemove(r)
  PROVE  /\ Moves(r) /\ Ask(r).kind \in {"create", "update", "prepare"} /\ runs'[r].c = runs[r].c
         /\ runs[r].pc \in {"favorite", "repoint", "rating", "move-find", "move-store", "move-remove"}
         /\ runs'[r].pc \in {"favorite", "repoint", "done", "rating", "move-find", "move-store", "move-remove"}
         /\ Ask(r).kind # "prepare" => runs'[r].pc \in {"repoint", "done"}
<1> USE DEF Lands, Place, Talking
<1>1. CASE MigrateRead(r)
  <2>1. Ask(r).kind \in {"create", "update", "prepare"} /\ runs[r].pc = "favorite"
    BY <1>1 DEF MigrateRead, RunShape
  <2>2. /\ Migrated(r) \in {"done", "favorite", "rating"}
        /\ Ask(r).kind # "prepare" => Migrated(r) = "done"
    BY DEF Migrated
  <2>3. \/ Go(r, [runs[r] EXCEPT !.pc = Migrated(r), !.round = 2])
        \/ \E i : Go(r, [runs[r] EXCEPT !.pc = "repoint", !.fav = i])
    BY <1>1 DEF MigrateRead
  <2>4. CASE Go(r, [runs[r] EXCEPT !.pc = Migrated(r), !.round = 2])
    <3>1. Moves(r) /\ runs'[r].pc = Migrated(r) /\ runs'[r].c = runs[r].c
      BY <2>1, <2>2, <2>4, RoundStep
    <3>2. QED
      BY <2>1, <2>2, <3>1
  <2>5. CASE \E i : Go(r, [runs[r] EXCEPT !.pc = "repoint", !.fav = i])
    <3>1. Moves(r) /\ runs'[r].pc = "repoint" /\ runs'[r].c = runs[r].c
      BY <2>1, <2>5, FavNextStep
    <3>2. QED
      BY <2>1, <3>1
  <2>6. QED
    BY <2>3, <2>4, <2>5
<1>2. CASE MigrateSave(r)
  <2>1. Ask(r).kind \in {"create", "update", "prepare"} /\ runs[r].pc = "repoint"
    BY <1>2 DEF MigrateSave, RunShape
  <2>2. /\ Migrated(r) \in {"done", "favorite", "rating"}
        /\ Ask(r).kind # "prepare" => Migrated(r) = "done"
    BY DEF Migrated
  <2>3. Go(r, [runs[r] EXCEPT !.pc = Migrated(r), !.round = 2])
    BY <1>2 DEF MigrateSave
  <2>4. QED
    BY <2>1, <2>2, <2>3, RoundStep
<1>3. CASE MoveRead(r)
  <2>1. PICK pc \in {"done", "move-find"} : \E score : Go(r, [runs[r] EXCEPT !.row = score, !.pc = pc])
    BY <1>3 DEF MoveRead
  <2>2. Ask(r).kind = "prepare" /\ runs[r].pc = "rating"
    BY <1>3 DEF MoveRead, At
  <2>3. Moves(r) /\ runs'[r].pc = pc /\ runs'[r].c = runs[r].c
    BY <2>1, <2>2, RowStep
  <2>4. QED
    BY <2>2, <2>3
<1>4. CASE MoveFind(r)
  <2>1. PICK score : Go(r, [runs[r] EXCEPT !.fav = score, !.pc = "move-store"])
    BY <1>4 DEF MoveFind
  <2>2. Ask(r).kind = "prepare" /\ runs[r].pc = "move-find"
    BY <1>4 DEF MoveFind, At
  <2>3. Moves(r) /\ runs'[r].pc = "move-store" /\ runs'[r].c = runs[r].c
    BY <2>1, <2>2, FavStep
  <2>4. QED
    BY <2>2, <2>3
<1>5. CASE MoveStore(r)
  BY <1>5, ToStep DEF MoveStore, At
<1>6. CASE MoveRemove(r)
  BY <1>6, ToStep DEF MoveRemove, At
<1>7. QED
  BY <1>1, <1>2, <1>3, <1>4, <1>5, <1>6

\* Requests that never touch a cocktail or a picture.
Aside(r) ==
  \/ FavoriteCheck(r) \/ FavoriteInsert(r) \/ UnfavoriteRead(r) \/ UnfavoriteDrop(r) \/ ListRead(r) \/ ListSave(r)
  \/ SaveRead(r) \/ LookUp(r) \/ MakeName(r) \/ SaveMark(r) \/ Discard(r)
AsideKinds == {"favorite", "unfavorite", "list", "save", "discard"}

LEMMA AsideDoes ==
  ASSUME RunShape, NEW r \in Requests, Aside(r)
  PROVE  /\ Moves(r) /\ Ask(r).kind \in AsideKinds
         /\ Ask(r).kind \in {"save", "discard"} => runs'[r].pc \in {"look-up", "names"} \cup Ends
<1> USE DEF Lands, Place, Talking, AsideKinds, Ends
<1>1. CASE FavoriteCheck(r)
  BY <1>1, ToStep DEF FavoriteCheck, Starts, At
<1>2. CASE FavoriteInsert(r)
  BY <1>2, ToStep DEF FavoriteInsert, At
<1>3. CASE UnfavoriteRead(r)
  <2>1. Ask(r).kind = "unfavorite" /\ (To(r, "refused") \/ \E i : Go(r, [Idle EXCEPT !.pc = "drop", !.fav = i]))
    BY <1>3 DEF UnfavoriteRead, Starts, At
  <2>2. ASSUME NEW i, Go(r, [Idle EXCEPT !.pc = "drop", !.fav = i])
        PROVE  Moves(r)
    <3>1. PICK q : q = [Idle EXCEPT !.pc = "drop", !.fav = i] /\ Go(r, q)
      BY <2>2
    <3>2. Fits(q) /\ q.pc = "drop"
      BY <3>1 DEF Fits, Idle
    <3>3. QED
      BY <3>1, <3>2, GoStep
  <2>3. QED
    BY <2>1, <2>2, ToStep
<1>4. CASE UnfavoriteDrop(r)
  BY <1>4, ToStep DEF UnfavoriteDrop, At
<1>5. CASE ListRead(r)
  <2>1. PICK rest : Ask(r).kind = "list" /\ Go(r, [Idle EXCEPT !.pc = "save-back", !.rest = rest, !.row = favs])
    BY <1>5 DEF ListRead, Starts, At
  <2>2. PICK q : q = [Idle EXCEPT !.pc = "save-back", !.rest = rest, !.row = favs] /\ Go(r, q)
    BY <2>1
  <2>3. Fits(q) /\ q.pc = "save-back"
    BY <2>2 DEF Fits, Idle
  <2>4. QED
    BY <2>1, <2>2, <2>3, GoStep
<1>6. CASE ListSave(r)
  BY <1>6, ToStep DEF ListSave, At
<1>7. CASE SaveRead(r)
  <2>1. Ask(r).kind = "save" /\ (To(r, "refused") \/ \E i, row : Go(r, [Idle EXCEPT !.pc = "look-up", !.fav = i, !.row = row]))
    BY <1>7 DEF SaveRead, Starts, At
  <2>2. ASSUME NEW i, NEW row, Go(r, [Idle EXCEPT !.pc = "look-up", !.fav = i, !.row = row])
        PROVE  Moves(r) /\ runs'[r].pc = "look-up"
    <3>1. PICK q : q = [Idle EXCEPT !.pc = "look-up", !.fav = i, !.row = row] /\ Go(r, q)
      BY <2>2
    <3>2. Fits(q) /\ q.pc = "look-up"
      BY <3>1 DEF Fits, Idle
    <3>3. QED
      BY <2>1, <3>1, <3>2, GoStep
  <2>3. QED
    BY <2>1, <2>2, ToStep
<1>8. CASE LookUp(r)
  <2>1. PICK rest : Ask(r).kind = "save" /\ Go(r, [runs[r] EXCEPT !.pc = "names", !.rest = rest])
    BY <1>8 DEF LookUp, At
  <2>2. PICK q : q = [runs[r] EXCEPT !.pc = "names", !.rest = rest] /\ Go(r, q)
    BY <2>1
  <2>3. Fits(q) /\ q.pc = "names"
    BY <2>2 DEF Fits, RunShape
  <2>4. QED
    BY <2>1, <2>2, <2>3, GoStep
<1>9. CASE MakeName(r)
  <2>1. /\ Ask(r).kind = "save" /\ runs[r].pc = "names"
        /\ To(r, "failed") \/ \E rest : Go(r, [runs[r] EXCEPT !.rest = rest])
    BY <1>9 DEF MakeName, At
  <2>2. QED
    BY <2>1, ToStep, RestStep
<1>10. CASE SaveMark(r)
  BY <1>10, ToStep DEF SaveMark, At
<1>11. CASE Discard(r)
  BY <1>11, ToStep DEF Discard, Starts, At
<1>12. QED
  BY <1>1, <1>2, <1>3, <1>4, <1>5, <1>6, <1>7, <1>8, <1>9, <1>10, <1>11 DEF Aside

\* What the other requests do to their own record.
LEMMA UploadDoes ==
  ASSUME RunShape, NEW r \in Requests, Upload(r)
  PROVE  /\ Moves(r) /\ Ask(r).kind \in {"create", "update"} /\ Ask(r).picture
         /\ runs[r].pc = "new" /\ runs'[r].pc = "upload"
  BY ToStep DEF Upload, Starts, At, Lands, Place, Talking

LEMMA UploadFailsDoes ==
  ASSUME RunShape, NEW r \in Requests, UploadFails(r)
  PROVE  /\ Moves(r) /\ Ask(r).kind \in {"create", "update"} /\ runs[r].pc = "upload" /\ runs'[r].pc = "failed"
<1>1. Ask(r).kind \in {"create", "update"} /\ runs[r].pc = "upload" /\ To(r, "failed")
  BY DEF UploadFails, RunShape, Place
<1>2. QED
  BY <1>1, ToStep DEF Lands, Place, Talking

LEMMA CreateStartDoes ==
  ASSUME RunShape, NEW r \in Requests, CreateStart(r)
  PROVE  /\ Moves(r) /\ Ask(r).kind = "create" /\ runs[r].pc \in {"new", "upload"} /\ runs'[r].pc = "insert"
         /\ IF Ask(r).picture THEN photo[r] = "saved" ELSE runs[r].pc = "new"
<1>1. /\ Ask(r).kind = "create" /\ runs[r].pc \in {"new", "upload"} /\ To(r, "insert")
      /\ IF Ask(r).picture THEN photo[r] = "saved" ELSE runs[r].pc = "new"
  BY DEF CreateStart, Ready, Starts, At
<1>2. QED
  BY <1>1, ToStep DEF Lands, Place, Talking

LEMMA UpdateReadDoes ==
  ASSUME RunShape, NEW r \in Requests, UpdateRead(r)
  PROVE  /\ Moves(r) /\ Ask(r).kind = "update" /\ runs[r].pc \in {"new", "upload"}
         /\ IF Ask(r).picture THEN photo[r] = "saved" ELSE runs[r].pc = "new"
         /\ \/ /\ Live(Ask(r).on) /\ disk' = disk
               /\ runs'[r].pc = "count" /\ runs'[r].c = Ask(r).on /\ runs'[r].row = cocktails[Ask(r).on]
            \/ runs'[r].pc = "refused" /\ disk' = Without(r)
<1>1. /\ Ask(r).kind = "update" /\ runs[r].pc \in {"new", "upload"}
      /\ IF Ask(r).picture THEN photo[r] = "saved" ELSE runs[r].pc = "new"
  BY DEF UpdateRead, Ready, Starts, At
<1>2. \/ /\ Live(Ask(r).on) /\ disk' = disk
         /\ Go(r, [Idle EXCEPT !.pc = "count", !.c = Ask(r).on, !.row = cocktails[Ask(r).on]])
      \/ To(r, "refused") /\ disk' = Without(r)
  BY DEF UpdateRead
<1>3. ASSUME Go(r, [Idle EXCEPT !.pc = "count", !.c = Ask(r).on, !.row = cocktails[Ask(r).on]])
      PROVE  Moves(r) /\ runs'[r].pc = "count" /\ runs'[r].c = Ask(r).on /\ runs'[r].row = cocktails[Ask(r).on]
  BY <1>1, <1>3, ReadStep DEF Lands, Place, Talking
<1>4. ASSUME NEW pc \in {"refused", "done"}, To(r, pc)
      PROVE  Moves(r) /\ runs'[r].pc = pc /\ runs'[r].c = runs[r].c
  BY <1>1, <1>4, ToStep DEF Lands, Place, Talking
<1>5. QED
  BY <1>1, <1>2, <1>3, <1>4

LEMMA UpdateCountDoes ==
  ASSUME RunShape, NEW r \in Requests, UpdateCount(r)
  PROVE  /\ Moves(r) /\ Ask(r).kind = "update" /\ runs[r].pc = "count" /\ runs'[r].pc \in {"insert", "save"}
         /\ runs'[r].c = runs[r].c /\ runs'[r].row = runs[r].row
<1>1. PICK pc \in {"insert", "save"} : To(r, pc)
  BY DEF UpdateCount
<1>2. Ask(r).kind = "update" /\ runs[r].pc = "count"
  BY DEF UpdateCount, At
<1>3. QED
  BY <1>1, <1>2, ToStep DEF Lands, Place, Talking

LEMMA SaveRowDoes ==
  ASSUME RunShape, NEW r \in Requests, NEW row, SaveRow(r, row), runs[r].pc = "save"
  PROVE  /\ Moves(r) /\ runs'[r].c = runs[r].c
         /\ \/ /\ runs'[r].pc = "done" /\ cocktails' = [cocktails EXCEPT ![runs[r].c] = row]
               /\ Tracked(runs[r].c, row.image, row.image = r) /\ disk' = disk
            \/ runs'[r].pc = "failed" /\ disk' = Without(r) /\ UNCHANGED <<cocktails, putBack>>
  BY ToStep DEF SaveRow, Lands, Place, Talking

LEMMA RemoveReadDoes ==
  ASSUME RunShape, NEW r \in Requests, RemoveRead(r)
  PROVE  /\ Moves(r) /\ Ask(r).kind = "remove" /\ runs[r].pc = "new"
         /\ \/ /\ Live(Ask(r).on)
               /\ runs'[r].pc = "save" /\ runs'[r].c = Ask(r).on /\ runs'[r].row = cocktails[Ask(r).on]
            \/ runs'[r].pc = "refused"
<1>1. Ask(r).kind = "remove" /\ runs[r].pc = "new"
  BY DEF RemoveRead, Starts, At
<1>2. \/ /\ Live(Ask(r).on)
         /\ Go(r, [Idle EXCEPT !.pc = "save", !.c = Ask(r).on, !.row = cocktails[Ask(r).on]])
      \/ To(r, "refused")
  BY DEF RemoveRead
<1>0. Lands(Ask(r).kind, "save")
  BY <1>1 DEF Lands, Place, Talking
<1>3. ASSUME Go(r, [Idle EXCEPT !.pc = "save", !.c = Ask(r).on, !.row = cocktails[Ask(r).on]])
      PROVE  Moves(r) /\ runs'[r].pc = "save" /\ runs'[r].c = Ask(r).on /\ runs'[r].row = cocktails[Ask(r).on]
  <2>1. PICK c, row : c = Ask(r).on /\ row = cocktails[Ask(r).on]
    OBVIOUS
  <2>2. Go(r, [Idle EXCEPT !.pc = "save", !.c = c, !.row = row])
    BY <1>3, <2>1
  <2>3. Moves(r) /\ runs'[r].pc = "save" /\ runs'[r].c = c /\ runs'[r].row = row
    BY <1>0, <2>2, ReadStep
  <2>4. QED
    BY <2>1, <2>3
<1>4. ASSUME NEW pc \in {"refused", "done"}, To(r, pc)
      PROVE  Moves(r) /\ runs'[r].pc = pc /\ runs'[r].c = runs[r].c
  BY <1>1, <1>4, ToStep DEF Lands, Place, Talking
<1>5. QED
  BY <1>1, <1>2, <1>3, <1>4

LEMMA ResolveReadDoes ==
  ASSUME RunShape, NEW r \in Requests, ResolveRead(r)
  PROVE  /\ Moves(r) /\ Ask(r).kind = "resolve" /\ runs[r].pc = "new"
         /\ \/ /\ cocktails[Ask(r).on] # Null
               /\ runs'[r].pc = "drop-cocktail" /\ runs'[r].c = Ask(r).on /\ runs'[r].row = cocktails[Ask(r).on]
            \/ runs'[r].pc = "done" /\ runs'[r].c = runs[r].c
<1>1. Ask(r).kind = "resolve" /\ runs[r].pc = "new"
  BY DEF ResolveRead, Starts, At
<1>2. \/ /\ cocktails[Ask(r).on] # Null
         /\ Go(r, [Idle EXCEPT !.pc = "drop-cocktail", !.c = Ask(r).on, !.row = cocktails[Ask(r).on]])
      \/ To(r, "done")
  BY DEF ResolveRead
<1>0. Lands(Ask(r).kind, "drop-cocktail")
  BY <1>1 DEF Lands, Place, Talking
<1>3. ASSUME Go(r, [Idle EXCEPT !.pc = "drop-cocktail", !.c = Ask(r).on, !.row = cocktails[Ask(r).on]])
      PROVE  Moves(r) /\ runs'[r].pc = "drop-cocktail" /\ runs'[r].c = Ask(r).on /\ runs'[r].row = cocktails[Ask(r).on]
  <2>1. PICK c, row : c = Ask(r).on /\ row = cocktails[Ask(r).on]
    OBVIOUS
  <2>2. Go(r, [Idle EXCEPT !.pc = "drop-cocktail", !.c = c, !.row = row])
    BY <1>3, <2>1
  <2>3. Moves(r) /\ runs'[r].pc = "drop-cocktail" /\ runs'[r].c = c /\ runs'[r].row = row
    BY <1>0, <2>2, ReadStep
  <2>4. QED
    BY <2>1, <2>3
<1>4. ASSUME NEW pc \in {"refused", "done"}, To(r, pc)
      PROVE  Moves(r) /\ runs'[r].pc = pc /\ runs'[r].c = runs[r].c
  BY <1>1, <1>4, ToStep DEF Lands, Place, Talking
<1>5. QED
  BY <1>1, <1>2, <1>3, <1>4

LEMMA ResolveDoes ==
  ASSUME RunShape, NEW r \in Requests, Resolve(r)
  PROVE  /\ Moves(r) /\ Ask(r).kind = "resolve" /\ runs[r].pc = "drop-cocktail" /\ runs'[r].c = runs[r].c
         /\ disk' = Without(runs[r].row.image)
         /\ \/ runs'[r].pc = "done" /\ cocktails' = [cocktails EXCEPT ![runs[r].c] = Null]
            \/ runs'[r].pc = "failed" /\ cocktails' = cocktails
  BY ToStep DEF Resolve, At, Drop, Lands, Place, Talking

Rating == {"rate-find", "rate-store", "average", "rate-save"}
LEMMA RateTargetDoes ==
  ASSUME RunShape, NEW r \in Requests, RateTarget(r)
  PROVE  /\ Moves(r) /\ Ask(r).kind = "rate" /\ runs[r].pc = "new"
         /\ \/ /\ runs'[r].pc = "rate-find"
               /\ \/ runs'[r].c \in Slots /\ cocktails[runs'[r].c] # Null /\ runs'[r].row = cocktails[runs'[r].c]
                  \/ runs'[r].c \in Externals
            \/ runs'[r].pc = "refused"
<1>1. Ask(r).kind = "rate" /\ runs[r].pc = "new"
  BY DEF RateTarget, Starts, At
<1>2. CASE To(r, "refused")
  BY <1>1, <1>2, ToStep DEF Lands, Place, Talking
<1>3. CASE ~To(r, "refused")
  <2>1. PICK t \in Rated(Ask(r).user, Ask(r).on) :
          Go(r, [Idle EXCEPT !.pc = "rate-find", !.c = t, !.row = IF t \in Slots THEN cocktails[t] ELSE Null])
    BY <1>3 DEF RateTarget
  <2>2. PICK row : row = IF t \in Slots THEN cocktails[t] ELSE Null
    OBVIOUS
  <2>3. Go(r, [Idle EXCEPT !.pc = "rate-find", !.c = t, !.row = row])
    BY <2>1, <2>2
  <2>4. Moves(r) /\ runs'[r].pc = "rate-find" /\ runs'[r].c = t /\ runs'[r].row = row
    BY <1>1, <2>3, ReadStep DEF Lands, Place, Talking
  <2>5. CASE Live(Ask(r).on)
    BY <1>1, <2>1, <2>2, <2>4, <2>5 DEF Rated, Live
  <2>6. CASE ~Live(Ask(r).on) /\ t \in OwnForks(Ask(r).user, Ask(r).on)
    <3>1. Live(t)
      BY <2>6 DEF OwnForks, Forks
    <3>2. QED
      BY <1>1, <2>2, <2>4, <3>1 DEF Live
  <2>7. CASE t \in Externals
    BY <1>1, <2>4, <2>7
  <2>8. Live(t) \/ t \in OwnForks(Ask(r).user, Ask(r).on) \/ t \in Externals
    BY <2>1 DEF Rated
  <2>9. QED
    BY <2>1, <2>5, <2>6, <2>7, <2>8 DEF Rated
<1>4. QED
  BY <1>2, <1>3

\* The row it has read, perhaps with another average.
Averaged(r, row) == \/ row = runs[r].row
                    \/ row = [runs[r].row EXCEPT !.avg = Average(runs[r].c)]
                    \/ row = Null /\ runs[r].c \notin Slots
LEMMA RatingDoes ==
  ASSUME RunShape, NEW r \in Requests, RateFind(r) \/ RateStore(r) \/ RateAverage(r) \/ RateSave(r)
  PROVE  /\ Moves(r) /\ Ask(r).kind = "rate" /\ runs[r].pc \in Rating /\ runs'[r].c = runs[r].c
         /\ runs'[r].pc \in Rating \cup {"done", "failed"}
         /\ Averaged(r, runs'[r].row)
<1>1. CASE RateFind(r)
  <2>1. PICK score : Go(r, [runs[r] EXCEPT !.fav = score, !.pc = "rate-store"])
    BY <1>1 DEF RateFind
  <2>2. Ask(r).kind = "rate" /\ runs[r].pc = "rate-find"
    BY <1>1 DEF RateFind, At
  <2>3. Moves(r) /\ runs'[r].pc = "rate-store" /\ runs'[r].c = runs[r].c /\ runs'[r].row = runs[r].row
    BY <2>1, <2>2, FavStep DEF Lands, Place, Talking
  <2>4. QED
    BY <2>2, <2>3 DEF Rating, Averaged
<1>2. CASE RateStore(r)
  <2>1. Ask(r).kind = "rate" /\ runs[r].pc = "rate-store" /\ (To(r, "failed") \/ To(r, "average"))
    BY <1>2 DEF RateStore, At
  <2>2. QED
    BY <2>1, ToStep DEF Rating, Averaged, Lands, Place, Talking
<1>3. CASE RateAverage(r)
  <2>1. PICK row : row = IF runs[r].c \in Slots THEN [runs[r].row EXCEPT !.avg = Average(runs[r].c)] ELSE Null
    OBVIOUS
  <2>5. Go(r, [runs[r] EXCEPT !.row = row, !.pc = "rate-save"])
    BY <1>3, <2>1 DEF RateAverage, RunShape, Fits
  <2>2. Ask(r).kind = "rate" /\ runs[r].pc = "average"
    BY <1>3 DEF RateAverage, At
  <2>3. Moves(r) /\ runs'[r].pc = "rate-save" /\ runs'[r].c = runs[r].c /\ runs'[r].row = row
    BY <2>5, <2>2, RowStep DEF Lands, Place, Talking
  <2>4. QED
    BY <2>1, <2>2, <2>3 DEF Rating, Averaged
<1>4. CASE RateSave(r)
  <2>1. Ask(r).kind = "rate" /\ runs[r].pc = "rate-save" /\ To(r, "done")
    BY <1>4 DEF RateSave, At
  <2>2. QED
    BY <2>1, ToStep DEF Rating, Averaged, Lands, Place, Talking
<1>5. QED
  BY <1>1, <1>2, <1>3, <1>4

LEMMA EraseReadDoes ==
  ASSUME RunShape, NEW r \in Requests, EraseRead(r)
  PROVE  /\ Moves(r) /\ Ask(r).kind = "erase" /\ runs[r].pc = "new"
         /\ runs'[r].pc = "erase-cocktails" /\ runs'[r].row = cocktails
         /\ runs'[r].rest = {c \in Slots : cocktails[c] # Null /\ cocktails[c].owner = Ask(r).user}
<1>1. PICK q : /\ q = [Idle EXCEPT !.pc = "erase-cocktails", !.row = cocktails,
                        !.rest = {c \in Slots : cocktails[c] # Null /\ cocktails[c].owner = Ask(r).user}]
               /\ Go(r, q)
  BY DEF EraseRead
<1>2. /\ Fits(q) /\ q.pc = "erase-cocktails" /\ q.row = cocktails
      /\ q.rest = {c \in Slots : cocktails[c] # Null /\ cocktails[c].owner = Ask(r).user}
  BY <1>1 DEF Fits, Idle
<1>3. Ask(r).kind = "erase" /\ runs[r].pc = "new"
  BY DEF EraseRead, Starts, At
<1>4. Lands("erase", "erase-cocktails")
  BY DEF Lands, Place, Talking
<1>5. Moves(r) /\ runs'[r] = q
  BY <1>1, <1>2, <1>3, <1>4, GoStep
<1>6. QED
  BY <1>2, <1>3, <1>5

LEMMA EraseOneDoes ==
  ASSUME RunShape, NEW r \in Requests, EraseOne(r)
  PROVE  /\ Moves(r) /\ Ask(r).kind = "erase" /\ runs[r].pc = "erase-cocktails"
         /\ runs'[r].pc = "erase-cocktails" /\ runs'[r].row = runs[r].row /\ runs'[r].rest \subseteq runs[r].rest
         /\ \E c \in runs[r].rest : AnonymizeOrRemove(r, c)
<1>1. /\ Ask(r).kind = "erase" /\ runs[r].pc = "erase-cocktails"
      /\ \E c \in runs[r].rest : AnonymizeOrRemove(r, c) /\ Go(r, [runs[r] EXCEPT !.rest = @ \ {c}])
  BY DEF EraseOne, At
<1>2. PICK c \in runs[r].rest : AnonymizeOrRemove(r, c) /\ Go(r, [runs[r] EXCEPT !.rest = @ \ {c}])
  BY <1>1
<1>3. PICK rest : rest = runs[r].rest \ {c} /\ Go(r, [runs[r] EXCEPT !.rest = rest])
  BY <1>2 DEF RunShape, Fits
<1>4. Moves(r) /\ runs'[r].pc = runs[r].pc /\ runs'[r].row = runs[r].row /\ runs'[r].rest = rest
  BY <1>1, <1>3, RestStep
<1>5. QED
  BY <1>1, <1>2, <1>3, <1>4

LEMMA ErasureDoes ==
  ASSUME RunShape, NEW r \in Requests, EraseData(r) \/ EraseUser(r)
  PROVE  /\ Moves(r) /\ Ask(r).kind = "erase" /\ runs[r].pc \in {"erase-cocktails", "erase-user"}
         /\ runs'[r].pc \in {"erase-user", "done"}
  BY ToStep DEF EraseData, EraseUser, At, Lands, Place, Talking

LEMMA SaveCocktailDoes ==
  ASSUME RunShape, NEW r \in Requests, SaveCocktail(r)
  PROVE  /\ Moves(r) /\ Ask(r).kind = "save"
         /\ \/ UNCHANGED cocktails
            \/ \E c \in Slots : /\ cocktails[c] = Null
                                /\ cocktails' = [cocktails EXCEPT ![c] = Row(Ask(r).user, FALSE, Null, "own")]
<1>1. Ask(r).kind = "save" /\ Lands("save", "failed") /\ Lands("save", "mark")
  BY DEF SaveCocktail, At, Lands, Place, Talking
<1>2. CASE Ask(r).user \notin users
  BY <1>1, <1>2, ToStep DEF SaveCocktail
<1>3. CASE Ask(r).user \in users
  <2>a. PICK c \in Slots :
          /\ Fresh(c)
          /\ cocktails' = [cocktails EXCEPT ![c] = Row(Ask(r).user, FALSE, Null, "own")]
          /\ Go(r, [runs[r] EXCEPT !.pc = "mark", !.c = c])
    BY <1>3 DEF SaveCocktail
  <2>b. c \in 1..c
    BY DEF Slots
  <2>1. /\ cocktails[c] = Null /\ cocktails' = [cocktails EXCEPT ![c] = Row(Ask(r).user, FALSE, Null, "own")]
        /\ Go(r, [runs[r] EXCEPT !.pc = "mark", !.c = c])
    BY <2>a, <2>b DEF Fresh
  <2>2. PICK q : q = [runs[r] EXCEPT !.pc = "mark", !.c = c] /\ Go(r, q)
    BY <2>1
  <2>3. Fits(q) /\ q.pc = "mark"
    BY <2>2 DEF Fits, RunShape
  <2>4. Moves(r)
    BY <1>1, <2>2, <2>3, GoStep
  <2>5. QED
    BY <1>1, <2>1, <2>4
<1>4. QED
  BY <1>2, <1>3

(************************************ talk *********************************)
\* What the record of a generation has beside.
TalkFits(q) == /\ "turn" \in DOMAIN q /\ "best" \in DOMAIN q /\ "verdict" \in DOMAIN q
               /\ "tries" \in DOMAIN q /\ "paid" \in DOMAIN q
               /\ "asked" \in DOMAIN q /\ "unknown" \in DOMAIN q
OrderShape == \A r \in Requests : Ordering(r) =>
  /\ runs[r].pc \in Talking \cup Ends \cup {"new"}
  /\ runs[r].pc \notin {"new", "refused"} => TalkFits(runs[r])
\* What of it stays unless a step says otherwise.
SameAsk(p, q) == p.asked = q.asked /\ p.unknown = q.unknown
SameTalk(p, q) == /\ p.best = q.best /\ p.verdict = q.verdict /\ p.tries = q.tries /\ p.paid = q.paid
                  /\ SameAsk(p, q)
Pays(q) == "paid" \in DOMAIN q /\ q.paid # Null

LEMMA TalkTo ==
  ASSUME RunShape, NEW r \in Requests, NEW pc, To(r, pc), Lands(Ask(r).kind, pc)
  PROVE  /\ Moves(r) /\ runs'[r].pc = pc /\ runs'[r].round = runs[r].round
         /\ Pays(runs'[r]) <=> Pays(runs[r])
         /\ TalkFits(runs[r]) => TalkFits(runs'[r]) /\ SameTalk(runs'[r], runs[r])
         /\ Pays(runs[r]) => runs'[r].paid = runs[r].paid
<1>1. PICK q : q = [runs[r] EXCEPT !.pc = pc]
  OBVIOUS
<1>2. /\ Fits(q) /\ q.pc = pc /\ q.round = runs[r].round
      /\ DOMAIN q = DOMAIN runs[r]
      /\ TalkFits(runs[r]) => TalkFits(q) /\ SameTalk(q, runs[r])
      /\ "paid" \in DOMAIN runs[r] => q.paid = runs[r].paid
  BY <1>1 DEF Fits, RunShape, TalkFits, SameTalk, SameAsk
<1>3. Go(r, q)
  BY <1>1 DEF To
<1>4. Moves(r) /\ runs'[r] = q
  BY <1>2, <1>3, GoStep
<1>5. QED
  BY <1>2, <1>4 DEF Pays

LEMMA GenerateDoes ==
  ASSUME RunShape, NEW r \in Requests, Generate(r)
  PROVE  /\ Moves(r) /\ Ordering(r) /\ runs[r].pc = "new"
         /\ \/ runs'[r].pc = "refused" /\ (Pays(runs'[r]) <=> Pays(runs[r]))
            \/ \E asked \in AskedFor(r) : runs'[r] = Asking(Ask(r).user, asked)
<1>1. Ordering(r) /\ runs[r].pc = "new"
  BY DEF Generate, Starts, At, Ordering
<1>2. CASE To(r, "refused")
  BY <1>1, <1>2, TalkTo DEF Lands, Place, Talking, Ordering
<1>3. CASE ~To(r, "refused")
  <2>1. PICK asked \in AskedFor(r) : Go(r, Asking(Ask(r).user, asked))
    BY <1>3 DEF Generate
  <2>2. PICK q : q = Asking(Ask(r).user, asked) /\ Go(r, q)
    BY <2>1
  <2>3. Fits(q) /\ q.pc = "attempt"
    BY <2>2 DEF Fits, Asking
  <2>4. Moves(r) /\ runs'[r] = q
    BY <1>1, <2>2, <2>3, GoStep DEF Lands, Place, Talking, Ordering
  <2>5. QED
    BY <1>1, <2>2, <2>4
<1>4. QED
  BY <1>2, <1>3

LEMMA TurnDoes ==
  ASSUME RunShape, OrderShape, NEW r \in Requests, ToolTurn(r) \/ ModelFails(r)
  PROVE  /\ Moves(r) /\ Ordering(r) /\ runs[r].pc = "attempt" /\ runs'[r].pc \in {"attempt", "failed"}
         /\ TalkFits(runs'[r]) /\ SameTalk(runs'[r], runs[r])
         /\ runs'[r].round = runs[r].round \/ (runs[r].round # MaxAttempts /\ runs'[r].round = runs[r].round + 1)
<1>1. Ordering(r) /\ runs[r].pc = "attempt" /\ TalkFits(runs[r])
  BY DEF ToolTurn, ModelFails, RunShape, Place, Talking, Ordering, OrderShape
<1>2. \/ To(r, "failed")
      \/ Go(r, [runs[r] EXCEPT !.turn = @ + 1])
      \/ runs[r].round # MaxAttempts /\ Go(r, [runs[r] EXCEPT !.round = @ + 1, !.turn = 0])
  BY DEF ToolTurn, ModelFails, Thrown
<1>3. CASE To(r, "failed")
  BY <1>1, <1>3, TalkTo DEF Lands, Place, Talking, Ordering
<1>4. CASE Go(r, [runs[r] EXCEPT !.turn = @ + 1])
  <2>1. PICK q : q = [runs[r] EXCEPT !.turn = @ + 1] /\ Go(r, q)
    BY <1>4
  <2>2. Fits(q) /\ q.pc = "attempt" /\ TalkFits(q) /\ SameTalk(q, runs[r]) /\ q.round = runs[r].round
    BY <1>1, <2>1 DEF Fits, RunShape, TalkFits, SameTalk, SameAsk
  <2>3. Moves(r) /\ runs'[r] = q
    BY <1>1, <2>1, <2>2, GoStep DEF Lands, Place, Talking, Ordering
  <2>4. QED
    BY <1>1, <2>2, <2>3
<1>5. CASE runs[r].round # MaxAttempts /\ Go(r, [runs[r] EXCEPT !.round = @ + 1, !.turn = 0])
  <2>1. PICK q : q = [runs[r] EXCEPT !.round = @ + 1, !.turn = 0] /\ Go(r, q)
    BY <1>5
  <2>2. Fits(q) /\ q.pc = "attempt" /\ TalkFits(q) /\ SameTalk(q, runs[r]) /\ q.round = runs[r].round + 1
    BY <1>1, <2>1 DEF Fits, RunShape, TalkFits, SameTalk, SameAsk
  <2>3. Moves(r) /\ runs'[r] = q
    BY <1>1, <2>1, <2>2, GoStep DEF Lands, Place, Talking, Ordering
  <2>4. QED
    BY <1>1, <1>5, <2>2, <2>3
<1>6. QED
  BY <1>2, <1>3, <1>4, <1>5

LEMMA ConsumeDoes ==
  ASSUME RunShape, OrderShape, NEW r \in Requests, Consume(r)
  PROVE  /\ Moves(r) /\ Ordering(r) /\ runs[r].pc = "consume" /\ TalkFits(runs'[r])
         /\ runs'[r].best = runs[r].best /\ runs'[r].verdict = runs[r].verdict
         /\ runs'[r].tries = runs[r].tries /\ runs'[r].round = runs[r].round
         /\ \/ runs'[r].pc = "failed" /\ quota' = quota /\ runs'[r].paid = runs[r].paid
            \/ /\ Ask(r).user \in users /\ quota' = [quota EXCEPT ![<<Ask(r).user, day>>] = @ + 1]
               /\ runs'[r].pc = (IF WithinLimit(Ask(r).user) THEN "compare" ELSE "refused")
               /\ runs'[r].paid = day
<1>1. Ordering(r) /\ runs[r].pc = "consume" /\ TalkFits(runs[r])
  BY DEF Consume, RunShape, Place, Talking, Ordering, OrderShape
<1>2. CASE Ask(r).user \notin users
  <2>1. To(r, "failed") /\ quota' = quota
    BY <1>2 DEF Consume
  <2>2. QED
    BY <1>1, <2>1, TalkTo DEF Lands, Place, Talking, Ordering, SameTalk
<1>3. CASE Ask(r).user \in users
  <2>1. /\ quota' = [quota EXCEPT ![<<Ask(r).user, day>>] = @ + 1]
        /\ Go(r, [runs[r] EXCEPT !.pc = IF WithinLimit(Ask(r).user) THEN "compare" ELSE "refused", !.paid = day])
    BY <1>3 DEF Consume
  <2>2. PICK pc : pc = IF WithinLimit(Ask(r).user) THEN "compare" ELSE "refused"
    OBVIOUS
  <2>3. PICK q : q = [runs[r] EXCEPT !.pc = pc, !.paid = day] /\ Go(r, q)
    BY <2>1, <2>2
  <2>4. /\ Fits(q) /\ q.pc = pc /\ TalkFits(q) /\ q.paid = day /\ q.round = runs[r].round
        /\ q.best = runs[r].best /\ q.verdict = runs[r].verdict /\ q.tries = runs[r].tries
    BY <1>1, <2>3 DEF Fits, RunShape, TalkFits
  <2>5. Lands(Ask(r).kind, q.pc)
    BY <1>1, <2>2, <2>4 DEF Lands, Place, Talking, Ordering
  <2>6. Moves(r) /\ runs'[r] = q
    BY <2>3, <2>4, <2>5, GoStep
  <2>7. QED
    BY <1>1, <1>3, <2>1, <2>2, <2>4, <2>6
<1>4. QED
  BY <1>2, <1>3

LEMMA CompareDoes ==
  ASSUME RunShape, OrderShape, NEW r \in Requests, Compare(r) \/ Record(r)
  PROVE  /\ Moves(r) /\ Ordering(r) /\ runs[r].pc \in {"compare", "record"}
         /\ runs'[r].pc \in {"record", "failed", "done"} /\ TalkFits(runs'[r])
         /\ runs'[r].tries = runs[r].tries /\ runs'[r].round = runs[r].round /\ runs'[r].paid = runs[r].paid
         /\ runs'[r].pc = "record" => runs[r].pc = "compare" /\ runs'[r].best = runs[r].best
<1>1. CASE Compare(r)
  <2>1. Ordering(r) /\ runs[r].pc = "compare" /\ TalkFits(runs[r])
    BY <1>1 DEF Compare, RunShape, Place, Talking, Ordering, OrderShape
  <2>2. PICK q : /\ Go(r, q)
                 /\ q = [runs[r] EXCEPT !.pc = "record",
                           !.verdict.score = IF Duplicate(runs[r].best) THEN (4 * @) \div 5 ELSE @]
    BY <1>1 DEF Compare
  <2>3. /\ Fits(q) /\ q.pc = "record" /\ TalkFits(q) /\ q.round = runs[r].round
        /\ q.tries = runs[r].tries /\ q.paid = runs[r].paid /\ q.best = runs[r].best
    BY <2>1, <2>2 DEF Fits, RunShape, TalkFits
  <2>4. Moves(r) /\ runs'[r] = q
    BY <2>1, <2>2, <2>3, GoStep DEF Lands, Place, Talking, Ordering
  <2>5. QED
    BY <2>1, <2>3, <2>4
<1>2. CASE Record(r)
  <2>1. Ordering(r) /\ runs[r].pc = "record" /\ TalkFits(runs[r])
    BY <1>2 DEF Record, RunShape, Place, Talking, Ordering, OrderShape
  <2>2. To(r, "failed") \/ To(r, "done")
    BY <1>2 DEF Record
  <2>3. QED
    BY <2>1, <2>2, TalkTo DEF Lands, Place, Talking, Ordering, SameTalk
<1>3. QED
  BY <1>1, <1>2

\* An attempt that answers is judged and joins the others; the best is kept.
Chosen(p, q, recipe, verdict) ==
  IF p.best = Null \/ verdict.score > p.verdict.score
  THEN q.best = recipe /\ q.verdict = verdict ELSE q.best = p.best /\ q.verdict = p.verdict
LEMMA AnswerDoes ==
  ASSUME RunShape, OrderShape, NEW r \in Requests, ModelAnswers(r)
  PROVE  /\ Moves(r) /\ Ordering(r) /\ runs[r].pc = "attempt" /\ TalkFits(runs'[r]) /\ runs'[r].paid = runs[r].paid
         /\ SameAsk(runs'[r], runs[r])
         /\ \E reply \in Replies : \E recipe, verdict :
              /\ recipe = Built(reply, runs[r].asked) /\ verdict = Verdict(recipe, runs[r].unknown)
              /\ Chosen(runs[r], runs'[r], recipe, verdict)
              /\ runs'[r].tries = Append(runs[r].tries, verdict)
              /\ \/ /\ Accepted(verdict) \/ runs[r].round = MaxAttempts
                    /\ runs'[r].pc = "consume" /\ runs'[r].round = runs[r].round
                 \/ /\ ~Accepted(verdict) /\ runs[r].round # MaxAttempts
                    /\ runs'[r].pc = "attempt" /\ runs'[r].round = runs[r].round + 1
<1>1. Ordering(r) /\ runs[r].pc = "attempt" /\ TalkFits(runs[r])
  BY DEF ModelAnswers, RunShape, Place, Talking, Ordering, OrderShape
<1>2. PICK reply \in Replies : \E recipe, verdict, run :
         /\ recipe = Built(reply, runs[r].asked) /\ verdict = Verdict(recipe, runs[r].unknown)
         /\ run = [Best(runs[r], recipe, verdict) EXCEPT !.tries = Append(@, verdict)]
         /\ Go(r, IF Accepted(verdict) \/ run.round = MaxAttempts THEN [run EXCEPT !.pc = "consume"]
                  ELSE [run EXCEPT !.round = @ + 1, !.turn = 0])
  BY DEF ModelAnswers
<1>3. PICK recipe, verdict, run :
         /\ recipe = Built(reply, runs[r].asked) /\ verdict = Verdict(recipe, runs[r].unknown)
         /\ run = [Best(runs[r], recipe, verdict) EXCEPT !.tries = Append(@, verdict)]
         /\ Go(r, IF Accepted(verdict) \/ run.round = MaxAttempts THEN [run EXCEPT !.pc = "consume"]
                  ELSE [run EXCEPT !.round = @ + 1, !.turn = 0])
  BY <1>2
<1>4. PICK b : b = Best(runs[r], recipe, verdict)
  OBVIOUS
<1>5. /\ Fits(b) /\ TalkFits(b) /\ b.paid = runs[r].paid /\ b.round = runs[r].round /\ b.pc = "attempt"
      /\ b.tries = runs[r].tries /\ SameAsk(b, runs[r]) /\ Chosen(runs[r], b, recipe, verdict)
  <2>1. PICK n : n = [runs[r] EXCEPT !.best = recipe, !.verdict = verdict]
    OBVIOUS
  <2>2. /\ Fits(n) /\ TalkFits(n) /\ n.paid = runs[r].paid /\ n.round = runs[r].round /\ n.pc = "attempt"
        /\ n.tries = runs[r].tries /\ SameAsk(n, runs[r]) /\ n.best = recipe /\ n.verdict = verdict
    BY <1>1, <2>1 DEF Fits, TalkFits, RunShape, SameAsk
  <2>3. b = IF runs[r].best = Null \/ verdict.score > runs[r].verdict.score THEN n ELSE runs[r]
    BY <1>4, <2>1 DEF Best
  <2>4. QED
    BY <1>1, <2>2, <2>3 DEF Chosen, RunShape, SameAsk
<1>6. /\ Fits(run) /\ TalkFits(run) /\ run.paid = runs[r].paid /\ run.round = runs[r].round /\ run.pc = "attempt"
      /\ run.tries = Append(runs[r].tries, verdict) /\ run.best = b.best /\ run.verdict = b.verdict
      /\ SameAsk(run, runs[r])
  <2>1. run = [b EXCEPT !.tries = Append(@, verdict)]
    BY <1>3, <1>4
  <2>2. QED
    BY <1>5, <2>1 DEF Fits, TalkFits, SameAsk
<1>7. PICK q : /\ q = (IF Accepted(verdict) \/ run.round = MaxAttempts THEN [run EXCEPT !.pc = "consume"]
                       ELSE [run EXCEPT !.round = @ + 1, !.turn = 0])
               /\ Go(r, q)
  BY <1>3
<1>8. CASE Accepted(verdict) \/ run.round = MaxAttempts
  <2>1. q = [run EXCEPT !.pc = "consume"]
    BY <1>7, <1>8
  <2>2. /\ Fits(q) /\ TalkFits(q) /\ q.paid = runs[r].paid /\ q.round = runs[r].round /\ q.pc = "consume"
        /\ q.tries = Append(runs[r].tries, verdict) /\ q.best = b.best /\ q.verdict = b.verdict
        /\ SameAsk(q, runs[r])
    BY <1>6, <2>1 DEF Fits, TalkFits, SameAsk
  <2>3. Moves(r) /\ runs'[r] = q
    BY <1>1, <1>7, <2>2, GoStep DEF Lands, Place, Talking, Ordering
  <2>4. Chosen(runs[r], q, recipe, verdict)
    BY <1>5, <2>2 DEF Chosen
  <2>5. QED
    BY <1>1, <1>3, <1>6, <1>8, <2>2, <2>3, <2>4
<1>9. CASE ~(Accepted(verdict) \/ run.round = MaxAttempts)
  <2>1. q = [run EXCEPT !.round = @ + 1, !.turn = 0]
    BY <1>7, <1>9
  <2>2. /\ Fits(q) /\ TalkFits(q) /\ q.paid = runs[r].paid /\ q.round = runs[r].round + 1 /\ q.pc = "attempt"
        /\ q.tries = Append(runs[r].tries, verdict) /\ q.best = b.best /\ q.verdict = b.verdict
        /\ SameAsk(q, runs[r])
    BY <1>6, <2>1 DEF Fits, TalkFits, SameAsk
  <2>3. Moves(r) /\ runs'[r] = q
    BY <1>1, <1>7, <2>2, GoStep DEF Lands, Place, Talking, Ordering
  <2>4. Chosen(runs[r], q, recipe, verdict)
    BY <1>5, <2>2 DEF Chosen
  <2>5. QED
    BY <1>1, <1>3, <1>6, <1>9, <2>2, <2>3, <2>4
<1>10. QED
  BY <1>8, <1>9

(********************************* the quota *******************************)
\* Every step but those of a talk and of the end of an erasure leaves the
\* talks, the quotas and the accounts alone.
Quiets(r) == Moves(r) /\ ~Ordering(r) /\ UNCHANGED <<scene, users>>

LEMMA RecipesQuiet ==
  ASSUME RunShape, NEW r \in Requests, Recipes(r) \/ Upload(r) \/ UploadFails(r)
  PROVE  Quiets(r)
<1> USE DEF Quiets, Ordering
<1>1. CASE PrepareFind(r)
  BY <1>1, PrepareFindDoes DEF PrepareFind, Keep, tables
<1>2. CASE CreateStart(r)
  BY <1>2, CreateStartDoes DEF CreateStart, Keep, tables
<1>3. CASE Insert(r)
  BY <1>3, InsertDoes DEF Insert
<1>4. CASE UpdateRead(r)
  BY <1>4, UpdateReadDoes DEF UpdateRead, Beside, tables
<1>5. CASE UpdateCount(r)
  BY <1>5, UpdateCountDoes DEF UpdateCount, Keep, tables
<1>6. CASE UpdateSave(r)
  <2>1. PICK row : SaveRow(r, row) /\ At(r, "update", "save") /\ UNCHANGED <<scene, users>>
    BY <1>6 DEF UpdateSave, Beside
  <2>2. QED
    BY <2>1, SaveRowDoes DEF At
<1>7. CASE RemoveRead(r)
  BY <1>7, RemoveReadDoes DEF RemoveRead, Keep, tables
<1>8. CASE RemoveSave(r)
  <2>1. PICK row : SaveRow(r, row) /\ At(r, "remove", "save") /\ UNCHANGED <<scene, users>>
    BY <1>8 DEF RemoveSave, Beside
  <2>2. QED
    BY <2>1, SaveRowDoes DEF At
<1>9. CASE ResolveRead(r)
  BY <1>9, ResolveReadDoes DEF ResolveRead, Keep, tables
<1>10. CASE Resolve(r)
  BY <1>10, ResolveDoes DEF Resolve, Beside
<1>11. CASE Upload(r)
  BY <1>11, UploadDoes DEF Upload, tables
<1>12. CASE UploadFails(r)
  BY <1>12, UploadFailsDoes DEF UploadFails, Keep, tables
<1>13. QED
  BY <1>1, <1>2, <1>3, <1>4, <1>5, <1>6, <1>7, <1>8, <1>9, <1>10, <1>11, <1>12 DEF Recipes

LEMMA OthersQuiet ==
  ASSUME RunShape, NEW r \in Requests, Favorites(r) \/ Ratings(r) \/ EraseRead(r) \/ EraseOne(r)
  PROVE  Quiets(r)
<1>1. CASE FavoriteCheck(r) \/ FavoriteInsert(r) \/ UnfavoriteRead(r) \/ UnfavoriteDrop(r) \/ ListRead(r) \/ ListSave(r)
  <2>1. Moves(r) /\ ~Ordering(r)
    BY <1>1, AsideDoes DEF Aside, AsideKinds, Ordering
  <2>2. UNCHANGED <<scene, users>>
    BY <1>1 DEF FavoriteCheck, FavoriteInsert, UnfavoriteRead, UnfavoriteDrop, ListRead, ListSave, Keep, tables
  <2>3. QED
    BY <2>1, <2>2 DEF Quiets
<1>2. CASE MigrateRead(r) \/ MigrateSave(r) \/ MoveRead(r) \/ MoveFind(r) \/ MoveStore(r) \/ MoveRemove(r)
  <2>1. Moves(r) /\ ~Ordering(r)
    BY <1>2, MigrationDoes DEF Ordering
  <2>2. UNCHANGED <<scene, users>>
    BY <1>2 DEF MigrateRead, MigrateSave, MoveRead, MoveFind, MoveStore, MoveRemove, Keep, tables
  <2>3. QED
    BY <2>1, <2>2 DEF Quiets
<1>3. CASE RateTarget(r)
  BY <1>3, RateTargetDoes DEF RateTarget, Keep, tables, Quiets, Ordering
<1>4. CASE RateFind(r) \/ RateStore(r) \/ RateAverage(r) \/ RateSave(r)
  <2>1. Moves(r) /\ ~Ordering(r)
    BY <1>4, RatingDoes DEF Ordering
  <2>2. UNCHANGED <<scene, users>>
    BY <1>4 DEF RateFind, RateStore, RateAverage, RateSave, Keep, tables
  <2>3. QED
    BY <2>1, <2>2 DEF Quiets
<1>5. CASE EraseRead(r)
  BY <1>5, EraseReadDoes DEF EraseRead, Keep, tables, Quiets, Ordering
<1>6. CASE EraseOne(r)
  BY <1>6, EraseOneDoes DEF EraseOne, Beside, Quiets, Ordering
<1>7. QED
  BY <1>1, <1>2, <1>3, <1>4, <1>5, <1>6 DEF Favorites, Ratings

LEMMA SavesQuiet ==
  ASSUME RunShape, NEW r \in Requests,
         SaveRead(r) \/ LookUp(r) \/ MakeName(r) \/ SaveCocktail(r) \/ SaveMark(r) \/ Discard(r)
  PROVE  Quiets(r) /\ UNCHANGED <<day, quota>>
<1>1. Moves(r) /\ ~Ordering(r)
  BY AsideDoes, SaveCocktailDoes DEF Aside, AsideKinds, Ordering
<1>2. UNCHANGED <<scene, users, day, quota>>
  BY DEF SaveRead, LookUp, MakeName, SaveCocktail, SaveMark, Discard, Keep, tables, ai
<1>3. QED
  BY <1>1, <1>2 DEF Quiets

\* What a user's day was charged for, and what of it was let through.
Mine(u, d) == {r \in Requests : Ordering(r) /\ Pays(runs[r]) /\ Ask(r).user = u /\ runs[r].paid = d}
Through(u, d) == {r \in Mine(u, d) : runs[r].pc # "refused"}
Charged == \A u \in Users : ~Erased(u) => \A d \in 1..MaxDays :
  Cardinality(Through(u, d)) <= Limit /\ quota[<<u, d>>] = Cardinality(Mine(u, d))
Unpaid == \A r \in Requests : Ordering(r) /\ runs[r].pc \in {"new", "attempt", "consume"} => ~Pays(runs[r])
Books == /\ users \subseteq Users /\ day \in 1..MaxDays
         /\ quota = [k \in Users \X (1..MaxDays) |-> quota[k]]
QuotaInv == scene \in Scenes /\ RunShape /\ OrderShape /\ Unpaid /\ Books /\ Charged

LEMMA ChargedMeans == QuotaHolds <=> Charged
<1>1. ASSUME NEW u, NEW d
      PROVE  LET mine == {r \in Paid : Ask(r).user = u /\ runs[r].paid = d}
             IN  /\ Cardinality({r \in mine : runs[r].pc # "refused"}) <= Limit
                 /\ quota[<<u, d>>] = Cardinality(mine)
             <=> /\ Cardinality(Through(u, d)) <= Limit
                 /\ quota[<<u, d>>] = Cardinality(Mine(u, d))
  <2> DEFINE mine == {r \in Paid : Ask(r).user = u /\ runs[r].paid = d}
  <2>1. mine = Mine(u, d)
    BY DEF Paid, Mine, Ordering, Pays
  <2> HIDE DEF mine
  <2>2. {r \in mine : runs[r].pc # "refused"} = Through(u, d)
    BY <2>1 DEF Through
  <2>3. (Cardinality({r \in mine : runs[r].pc # "refused"}) <= Limit /\ quota[<<u, d>>] = Cardinality(mine))
        <=> (Cardinality(Through(u, d)) <= Limit /\ quota[<<u, d>>] = Cardinality(Mine(u, d)))
    BY <2>1, <2>2
  <2>4. QED
    BY <2>3 DEF mine
<1>2. ASSUME QuotaHolds
      PROVE  Charged
  <2>1. SUFFICES ASSUME NEW u \in Users, ~Erased(u), NEW d \in 1..MaxDays
                 PROVE  Cardinality(Through(u, d)) <= Limit /\ quota[<<u, d>>] = Cardinality(Mine(u, d))
    BY DEF Charged
  <2>2. LET mine == {r \in Paid : Ask(r).user = u /\ runs[r].paid = d}
        IN  /\ Cardinality({r \in mine : runs[r].pc # "refused"}) <= Limit
            /\ quota[<<u, d>>] = Cardinality(mine)
    BY <1>2, <2>1, Zenon DEF QuotaHolds
  <2>3. QED
    BY <1>1, <2>2
<1>3. ASSUME Charged
      PROVE  QuotaHolds
  <2>1. SUFFICES ASSUME NEW u \in Users, ~Erased(u), NEW d \in 1..MaxDays
                 PROVE  LET mine == {r \in Paid : Ask(r).user = u /\ runs[r].paid = d}
                        IN  /\ Cardinality({r \in mine : runs[r].pc # "refused"}) <= Limit
                            /\ quota[<<u, d>>] = Cardinality(mine)
    BY Zenon DEF QuotaHolds
  <2>2. Cardinality(Through(u, d)) <= Limit /\ quota[<<u, d>>] = Cardinality(Mine(u, d))
    BY <1>3, <2>1 DEF Charged
  <2>3. QED
    BY <1>1, <2>2
<1>4. QED
  BY <1>2, <1>3

LEMMA MineFinite ==
  ASSUME scene \in Scenes, NEW u, NEW d
  PROVE  /\ IsFiniteSet(Mine(u, d)) /\ IsFiniteSet(Through(u, d))
         /\ Cardinality(Mine(u, d)) \in Nat /\ Cardinality(Through(u, d)) \in Nat
         /\ Cardinality(Through(u, d)) <= Cardinality(Mine(u, d))
<1>1. IsFiniteSet(Requests)
  BY ScenesAssumption DEF Requests
<1>2. Mine(u, d) \subseteq Requests /\ Through(u, d) \subseteq Mine(u, d)
  BY DEF Mine, Through
<1>3. QED
  BY <1>1, <1>2, FS_Subset, FS_CardinalityType

\* A step that charges nobody.
LEMMA NobodyCharged ==
  ASSUME UNCHANGED scene, NEW u \in Users, ~Erased(u)', NEW d,
         \A r \in Requests : Ordering(r) =>
            /\ Pays(runs'[r]) <=> Pays(runs[r])
            /\ Pays(runs[r]) => runs'[r].paid = runs[r].paid /\ (runs'[r].pc = "refused" <=> runs[r].pc = "refused")
  PROVE  Mine(u, d)' = Mine(u, d) /\ Through(u, d)' = Through(u, d)
<1>1. Requests' = Requests /\ \A r \in Requests : Ask(r)' = Ask(r) /\ (Ordering(r)' <=> Ordering(r))
  BY DEF Requests, Ask, Ordering
<1>2. Mine(u, d)' = Mine(u, d)
  BY <1>1 DEF Mine, Pays
<1>3. QED
  BY <1>1, <1>2 DEF Through, Mine

LEMMA ErasedStays ==
  ASSUME UNCHANGED scene, NEW r \in Requests, Moves(r), NEW u, Erased(u)
  PROVE  Erased(u)'
  BY DEF Erased, Moves, Lands, Requests, Ask

LEMMA ShapeStays ==
  ASSUME RunShape, UNCHANGED scene, NEW r \in Requests, Moves(r)
  PROVE  RunShape'
  BY DEF RunShape, Moves, Lands, Requests, Ask

LEMMA OrdersStay ==
  ASSUME OrderShape, Unpaid, UNCHANGED scene, NEW r \in Requests, Moves(r), ~Ordering(r)
  PROVE  OrderShape' /\ Unpaid'
<1>1. Requests' = Requests /\ \A s \in Requests : Ordering(s)' <=> Ordering(s)
  BY DEF Requests, Ask, Ordering
<1>2. \A s \in Requests : Ordering(s) => runs'[s] = runs[s]
  BY DEF Moves
<1>3. QED
  BY <1>1, <1>2 DEF OrderShape, Unpaid, TalkFits, Pays

LEMMA QuietKeepsQuota ==
  ASSUME QuotaInv, NEW r \in Requests, Quiets(r), UNCHANGED <<day, quota>>
  PROVE  QuotaInv'
<1>1. scene' = scene /\ Moves(r) /\ ~Ordering(r) /\ users' = users
  BY DEF Quiets
<1>2. RunShape' /\ OrderShape' /\ Unpaid'
  BY <1>1, ShapeStays, OrdersStay DEF QuotaInv
<1>3. Charged'
  <2>1. SUFFICES ASSUME NEW u \in Users, ~Erased(u)', NEW d \in 1..MaxDays
                 PROVE  /\ Cardinality(Through(u, d)') <= Limit
                        /\ quota'[<<u, d>>] = Cardinality(Mine(u, d)')
    BY DEF Charged
  <2>2. ~Erased(u)
    BY <1>1, <2>1, ErasedStays
  <2>3. \A s \in Requests : Ordering(s) => runs'[s] = runs[s]
    BY <1>1 DEF Moves
  <2>4. Mine(u, d)' = Mine(u, d) /\ Through(u, d)' = Through(u, d)
    BY <1>1, <2>1, <2>3, NobodyCharged
  <2>5. QED
    BY <2>2, <2>4 DEF QuotaInv, Charged
<1>4. QED
  BY <1>1, <1>2, <1>3 DEF QuotaInv, Books

LEMMA TalkKeepsShape ==
  ASSUME QuotaInv, NEW r \in Requests, Generate(r) \/ ToolTurn(r) \/ ModelFails(r) \/ ModelAnswers(r)
                                       \/ Consume(r) \/ Compare(r) \/ Record(r)
  PROVE  /\ UNCHANGED <<scene, users, day>> /\ Moves(r) /\ RunShape' /\ OrderShape' /\ Unpaid'
         /\ Ordering(r) /\ runs'[r].pc \in Talking \cup Ends
<1>1. UNCHANGED <<scene, users, day>>
  BY DEF Generate, ToolTurn, ModelFails, ModelAnswers, Consume, Compare, Record, Keep, tables, ai
<1>2. Requests' = Requests /\ \A s \in Requests : Ordering(s)' <=> Ordering(s)
  BY <1>1 DEF Requests, Ask, Ordering
<1>3. /\ Moves(r) /\ Ordering(r) /\ runs'[r].pc \in Talking \cup Ends
      /\ runs'[r].pc \notin {"new", "refused"} => TalkFits(runs'[r])
      /\ runs'[r].pc \in {"new", "attempt", "consume"} => ~Pays(runs'[r])
  <2>1. RunShape /\ OrderShape /\ Unpaid
    BY DEF QuotaInv
  <2>2. CASE Generate(r)
    <3>1. /\ Moves(r) /\ Ordering(r)
          /\ \/ runs'[r].pc = "refused"
             \/ \E asked : runs'[r] = Asking(Ask(r).user, asked)
      BY <2>1, <2>2, GenerateDoes
    <3>2. ASSUME NEW asked, runs'[r] = Asking(Ask(r).user, asked)
          PROVE  runs'[r].pc = "attempt" /\ TalkFits(runs'[r]) /\ ~Pays(runs'[r])
      <4>1. PICK q : q = Asking(Ask(r).user, asked)
        OBVIOUS
      <4>2. q.pc = "attempt" /\ TalkFits(q) /\ q.paid = Null
        BY <4>1 DEF Asking, TalkFits
      <4>3. QED
        BY <3>2, <4>1, <4>2 DEF Pays
    <3>3. QED
      BY <3>1, <3>2 DEF Talking, Ends
  <2>3. CASE ToolTurn(r) \/ ModelFails(r)
    <3>1. /\ Moves(r) /\ Ordering(r) /\ runs[r].pc = "attempt" /\ runs'[r].pc \in {"attempt", "failed"}
          /\ TalkFits(runs'[r]) /\ SameTalk(runs'[r], runs[r])
      BY <2>1, <2>3, TurnDoes
    <3>2. TalkFits(runs[r]) /\ ~Pays(runs[r])
      BY <2>1, <3>1 DEF OrderShape, Unpaid, Talking
    <3>3. QED
      BY <3>1, <3>2 DEF Pays, TalkFits, SameTalk, Talking, Ends
  <2>4. CASE ModelAnswers(r)
    <3>1. /\ Moves(r) /\ Ordering(r) /\ runs[r].pc = "attempt" /\ TalkFits(runs'[r]) /\ runs'[r].paid = runs[r].paid
          /\ runs'[r].pc \in {"consume", "attempt"}
      BY <2>1, <2>4, AnswerDoes
    <3>2. TalkFits(runs[r]) /\ ~Pays(runs[r])
      BY <2>1, <3>1 DEF OrderShape, Unpaid, Talking
    <3>3. QED
      BY <3>1, <3>2 DEF Pays, TalkFits, Talking, Ends
  <2>5. CASE Consume(r)
    BY <2>1, <2>5, ConsumeDoes DEF Talking, Ends
  <2>6. CASE Compare(r) \/ Record(r)
    BY <2>1, <2>6, CompareDoes DEF Talking, Ends
  <2>7. QED
    BY <2>2, <2>3, <2>4, <2>5, <2>6
<1>4. RunShape'
  BY <1>1, <1>3, ShapeStays DEF QuotaInv
<1>5. \A s \in Requests \ {r} : runs'[s] = runs[s]
  BY <1>3 DEF Moves
<1>6. OrderShape'
  BY <1>2, <1>3, <1>5 DEF OrderShape, QuotaInv, TalkFits
<1>7. Unpaid'
  BY <1>2, <1>3, <1>5 DEF Unpaid, QuotaInv, Pays
<1>8. QED
  BY <1>1, <1>3, <1>4, <1>6, <1>7

LEMMA ConsumeCharges ==
  ASSUME QuotaInv, NEW r \in Requests, Consume(r)
  PROVE  Charged'
<1>1. /\ UNCHANGED <<scene, users, day>> /\ Moves(r) /\ Ordering(r) /\ runs[r].pc = "consume" /\ TalkFits(runs'[r])
      /\ \/ runs'[r].pc = "failed" /\ quota' = quota /\ runs'[r].paid = runs[r].paid
         \/ /\ Ask(r).user \in users /\ quota' = [quota EXCEPT ![<<Ask(r).user, day>>] = @ + 1]
            /\ runs'[r].pc = (IF WithinLimit(Ask(r).user) THEN "compare" ELSE "refused")
            /\ runs'[r].paid = day
  BY ConsumeDoes, TalkKeepsShape DEF QuotaInv
<1>2. ~Pays(runs[r]) /\ TalkFits(runs[r])
  BY <1>1 DEF QuotaInv, Unpaid, OrderShape, Talking
<1>3. Requests' = Requests /\ \A s \in Requests : Ask(s)' = Ask(s) /\ (Ordering(s)' <=> Ordering(s))
  BY <1>1 DEF Requests, Ask, Ordering
<1>4. \A s \in Requests \ {r} : runs'[s] = runs[s]
  BY <1>1 DEF Moves
<1>5. SUFFICES ASSUME NEW u \in Users, ~Erased(u)', NEW d \in 1..MaxDays
               PROVE  /\ Cardinality(Through(u, d)') <= Limit
                      /\ quota'[<<u, d>>] = Cardinality(Mine(u, d)')
  BY DEF Charged
<1>6. /\ ~Erased(u)
      /\ Cardinality(Through(u, d)) <= Limit /\ quota[<<u, d>>] = Cardinality(Mine(u, d))
  BY <1>1, <1>5, ErasedStays DEF QuotaInv, Charged
<1>7. CASE runs'[r].pc = "failed" /\ quota' = quota /\ runs'[r].paid = runs[r].paid
  <2>1. \A s \in Requests : Ordering(s) =>
            /\ Pays(runs'[s]) <=> Pays(runs[s])
            /\ Pays(runs[s]) => runs'[s].paid = runs[s].paid /\ (runs'[s].pc = "refused" <=> runs[s].pc = "refused")
    BY <1>1, <1>2, <1>4, <1>7 DEF Pays, TalkFits
  <2>2. Mine(u, d)' = Mine(u, d) /\ Through(u, d)' = Through(u, d)
    BY <1>1, <1>5, <2>1, NobodyCharged
  <2>3. QED
    BY <1>6, <1>7, <2>2
<1>8. CASE /\ Ask(r).user \in users /\ quota' = [quota EXCEPT ![<<Ask(r).user, day>>] = @ + 1]
           /\ runs'[r].pc = (IF WithinLimit(Ask(r).user) THEN "compare" ELSE "refused")
           /\ runs'[r].paid = day
  <2>1. day \in Nat /\ day # Null /\ Pays(runs'[r])
    BY <1>1, <1>8, NullAssumption, BarAssumption DEF QuotaInv, Books, Pays, TalkFits
  <2>2. CASE u = Ask(r).user /\ d = day
    <3>1. Mine(u, d)' = Mine(u, d) \cup {r}
      BY <1>1, <1>3, <1>4, <1>8, <2>1, <2>2 DEF Mine, Pays
    <3>2. r \notin Mine(u, d) /\ IsFiniteSet(Mine(u, d)) /\ Cardinality(Mine(u, d)) \in Nat
      <4>1. r \notin Mine(u, d)
        BY <1>2 DEF Mine
      <4>2. IsFiniteSet(Mine(u, d)) /\ Cardinality(Mine(u, d)) \in Nat
        BY MineFinite DEF QuotaInv
      <4>3. QED
        BY <4>1, <4>2
    <3>3. IsFiniteSet(Mine(u, d)') /\ Cardinality(Mine(u, d)') = Cardinality(Mine(u, d)) + 1
      BY <3>1, <3>2, FS_AddElement
    <3>4. <<u, d>> \in Users \X (1..MaxDays) /\ quota'[<<u, d>>] = quota[<<u, d>>] + 1
      BY <1>8, <2>2 DEF QuotaInv, Books
    <3>5. CASE WithinLimit(u)
      <4>1. quota[<<u, d>>] + 1 <= Limit
        BY <2>2, <3>5 DEF WithinLimit
      <4>2. Through(u, d)' \subseteq Mine(u, d)'
        BY DEF Through
      <4>3. Cardinality(Through(u, d)') <= Cardinality(Mine(u, d)') /\ Cardinality(Through(u, d)') \in Nat
        BY <3>3, <4>2, FS_Subset, FS_CardinalityType
      <4>4. QED
        BY <1>6, <3>2, <3>3, <3>4, <4>1, <4>3, BarAssumption
    <3>6. CASE ~WithinLimit(u)
      <4>1. runs'[r].pc = "refused"
        BY <1>8, <2>2, <3>6
      <4>2. Through(u, d)' = Through(u, d)
        BY <1>4, <3>1, <3>2, <4>1 DEF Through, Mine
      <4>3. QED
        BY <1>6, <3>3, <3>4, <4>2
    <3>7. QED
      BY <3>5, <3>6
  <2>3. CASE ~(u = Ask(r).user /\ d = day)
    <3>1. Mine(u, d)' = Mine(u, d) /\ r \notin Mine(u, d)
      BY <1>1, <1>2, <1>3, <1>4, <1>8, <2>3 DEF Mine
    <3>2. Through(u, d)' = Through(u, d)
      BY <1>4, <3>1 DEF Through, Mine
    <3>3. quota'[<<u, d>>] = quota[<<u, d>>]
      BY <1>8, <2>3 DEF QuotaInv, Books
    <3>4. QED
      BY <1>6, <3>1, <3>2, <3>3
  <2>4. QED
    BY <2>2, <2>3
<1>9. QED
  BY <1>1, <1>7, <1>8

LEMMA TalkCharges ==
  ASSUME QuotaInv, NEW r \in Requests,
         Generate(r) \/ ToolTurn(r) \/ ModelFails(r) \/ ModelAnswers(r) \/ Compare(r) \/ Record(r)
  PROVE  Charged'
<1>1. UNCHANGED <<scene, users, day, quota>> /\ Moves(r) /\ RunShape /\ OrderShape
  BY TalkKeepsShape DEF QuotaInv, Generate, ToolTurn, ModelFails, ModelAnswers, Compare, Record, Keep, ai
<1>2. /\ Pays(runs'[r]) <=> Pays(runs[r])
      /\ Pays(runs[r]) => runs'[r].paid = runs[r].paid /\ runs'[r].pc # "refused" /\ runs[r].pc # "refused"
  <2>1. CASE Generate(r)
    <3>1. /\ Ordering(r) /\ runs[r].pc = "new"
          /\ (Pays(runs'[r]) <=> Pays(runs[r])) \/ \E asked : runs'[r] = Asking(Ask(r).user, asked)
      BY <1>1, <2>1, GenerateDoes
    <3>2. ~Pays(runs[r])
      BY <3>1 DEF QuotaInv, Unpaid
    <3>3. ASSUME NEW asked, runs'[r] = Asking(Ask(r).user, asked)
          PROVE  ~Pays(runs'[r])
      <4>1. PICK q : q = Asking(Ask(r).user, asked)
        OBVIOUS
      <4>2. q.paid = Null
        BY <4>1 DEF Asking
      <4>3. QED
        BY <3>3, <4>1, <4>2 DEF Pays
    <3>4. QED
      BY <3>1, <3>2, <3>3
  <2>2. CASE ToolTurn(r) \/ ModelFails(r)
    <3>1. /\ Ordering(r) /\ runs[r].pc = "attempt" /\ runs'[r].pc \in {"attempt", "failed"}
          /\ TalkFits(runs'[r]) /\ runs'[r].paid = runs[r].paid
      BY <1>1, <2>2, TurnDoes DEF SameTalk
    <3>2. TalkFits(runs[r])
      BY <1>1, <3>1 DEF OrderShape, Talking
    <3>3. QED
      BY <3>1, <3>2 DEF Pays, TalkFits
  <2>3. CASE ModelAnswers(r)
    <3>1. /\ Ordering(r) /\ runs[r].pc = "attempt" /\ runs'[r].pc \in {"attempt", "consume"}
          /\ TalkFits(runs'[r]) /\ runs'[r].paid = runs[r].paid
      BY <1>1, <2>3, AnswerDoes
    <3>2. TalkFits(runs[r])
      BY <1>1, <3>1 DEF OrderShape, Talking
    <3>3. QED
      BY <3>1, <3>2 DEF Pays, TalkFits
  <2>4. CASE Compare(r) \/ Record(r)
    <3>1. /\ Ordering(r) /\ runs[r].pc \in {"compare", "record"} /\ runs'[r].pc \in {"record", "failed", "done"}
          /\ TalkFits(runs'[r]) /\ runs'[r].paid = runs[r].paid
      BY <1>1, <2>4, CompareDoes
    <3>2. TalkFits(runs[r])
      BY <1>1, <3>1 DEF OrderShape, Talking
    <3>3. QED
      BY <3>1, <3>2 DEF Pays, TalkFits
  <2>5. QED
    BY <2>1, <2>2, <2>3, <2>4
<1>3. \A s \in Requests : Ordering(s) =>
            /\ Pays(runs'[s]) <=> Pays(runs[s])
            /\ Pays(runs[s]) => runs'[s].paid = runs[s].paid /\ (runs'[s].pc = "refused" <=> runs[s].pc = "refused")
  BY <1>1, <1>2 DEF Moves
<1>4. SUFFICES ASSUME NEW u \in Users, ~Erased(u)', NEW d \in 1..MaxDays
               PROVE  /\ Cardinality(Through(u, d)') <= Limit
                      /\ quota'[<<u, d>>] = Cardinality(Mine(u, d)')
  BY DEF Charged
<1>5. ~Erased(u)
  BY <1>1, <1>4, ErasedStays
<1>6. Mine(u, d)' = Mine(u, d) /\ Through(u, d)' = Through(u, d)
  BY <1>1, <1>3, <1>4, NobodyCharged
<1>7. QED
  BY <1>1, <1>5, <1>6 DEF QuotaInv, Charged

LEMMA EraseHistoryKeeps ==
  ASSUME QuotaInv, NEW r \in Requests, EraseHistory(r)
  PROVE  QuotaInv'
<1>1. /\ Moves(r) /\ Ask(r).kind = "erase" /\ runs'[r].pc # "new" /\ ~Ordering(r)
  BY ErasureDoes DEF EraseHistory, QuotaInv, Ordering
<1>2. /\ scene' = scene /\ day' = day /\ users' \subseteq users
      /\ quota' = [k \in DOMAIN quota |-> IF k[1] = Ask(r).user THEN 0 ELSE quota[k]]
  BY DEF EraseHistory, EraseData, EraseUser, Keep
<1>3. RunShape' /\ OrderShape' /\ Unpaid'
  BY <1>1, <1>2, ShapeStays, OrdersStay DEF QuotaInv
<1>4. Books'
  BY <1>2 DEF QuotaInv, Books
<1>5. Charged'
  <2>1. SUFFICES ASSUME NEW u \in Users, ~Erased(u)', NEW d \in 1..MaxDays
                 PROVE  /\ Cardinality(Through(u, d)') <= Limit
                        /\ quota'[<<u, d>>] = Cardinality(Mine(u, d)')
    BY DEF Charged
  <2>2. ~Erased(u) /\ u # Ask(r).user
    BY <1>1, <1>2, <2>1, ErasedStays DEF Erased, Requests, Ask
  <2>3. \A s \in Requests : Ordering(s) => runs'[s] = runs[s]
    BY <1>1 DEF Moves
  <2>4. Mine(u, d)' = Mine(u, d) /\ Through(u, d)' = Through(u, d)
    BY <1>2, <2>1, <2>3, NobodyCharged
  <2>5. <<u, d>> \in Users \X (1..MaxDays) /\ <<u, d>>[1] = u
    BY <2>1
  <2>6. quota'[<<u, d>>] = quota[<<u, d>>]
    BY <1>2, <2>2, <2>5 DEF QuotaInv, Books
  <2>7. QED
    BY <2>2, <2>4, <2>6 DEF QuotaInv, Charged
<1>6. QED
  BY <1>2, <1>3, <1>4, <1>5 DEF QuotaInv

LEMMA StillKeeps ==
  ASSUME QuotaInv, UNCHANGED <<scene, runs, users, quota>>, day' \in 1..MaxDays
  PROVE  QuotaInv'
<1>1. Requests' = Requests /\ \A s \in Requests : Ask(s)' = Ask(s) /\ (Ordering(s)' <=> Ordering(s))
  BY DEF Requests, Ask, Ordering
<1>2. RunShape' /\ OrderShape' /\ Unpaid'
  BY <1>1 DEF QuotaInv, RunShape, OrderShape, Unpaid
<1>3. Charged'
  <2>1. SUFFICES ASSUME NEW u \in Users, ~Erased(u)', NEW d \in 1..MaxDays
                 PROVE  /\ Cardinality(Through(u, d)') <= Limit
                        /\ quota'[<<u, d>>] = Cardinality(Mine(u, d)')
    BY DEF Charged
  <2>2. ~Erased(u)
    BY <1>1, <2>1 DEF Erased
  <2>3. Mine(u, d)' = Mine(u, d) /\ Through(u, d)' = Through(u, d)
    BY <2>1, NobodyCharged
  <2>4. QED
    BY <2>2, <2>3 DEF QuotaInv, Charged
<1>4. QED
  BY <1>2, <1>3 DEF QuotaInv, Books

LEMMA QuotaInit == BarInit => QuotaInv
<1>1. SUFFICES ASSUME BarInit PROVE QuotaInv
  OBVIOUS
<1>2. scene \in Scenes /\ runs = [r \in Requests |-> Idle] /\ users = Users /\ day = 1
      /\ quota = [k \in Users \X (1..MaxDays) |-> 0]
  BY <1>1 DEF BarInit, Init
<1>3. Fits(Idle) /\ Idle.pc = "new" /\ ~Pays(Idle)
  BY DEF Idle, Fits, Pays
<1>4. RunShape /\ OrderShape /\ Unpaid
  BY <1>2, <1>3 DEF RunShape, OrderShape, Unpaid, Place, Talking
<1>5. Books
  BY <1>2, BarAssumption DEF Books
<1>6. Charged
  <2>1. SUFFICES ASSUME NEW u \in Users, NEW d \in 1..MaxDays
                 PROVE  Cardinality(Through(u, d)) <= Limit /\ quota[<<u, d>>] = Cardinality(Mine(u, d))
    BY DEF Charged
  <2>2. Mine(u, d) = {} /\ Through(u, d) = {}
    BY <1>2, <1>3 DEF Mine, Through
  <2>3. quota[<<u, d>>] = 0
    BY <1>2, <2>1
  <2>4. QED
    BY <2>2, <2>3, FS_EmptySet, BarAssumption
<1>7. QED
  BY <1>2, <1>4, <1>5, <1>6 DEF QuotaInv

LEMMA QuotaStep == QuotaInv /\ [BarNext]_barVars => QuotaInv'
<1>1. SUFFICES ASSUME QuotaInv, [BarNext]_barVars PROVE QuotaInv'
  OBVIOUS
<1>2. RunShape /\ day \in 1..MaxDays
  BY <1>1 DEF QuotaInv, Books
<1>3. CASE UNCHANGED barVars
  BY <1>1, <1>2, <1>3, StillKeeps DEF barVars, vars, tables, ai
<1>4. CASE Midnight
  <2>1. UNCHANGED <<scene, runs, users, quota>> /\ day' \in 1..MaxDays
    BY <1>2, <1>4, BarAssumption DEF Midnight, vars, tables
  <2>2. QED
    BY <1>1, <2>1, StillKeeps
<1>5. CASE CleanHistory
  BY <1>1, <1>2, <1>5, StillKeeps DEF CleanHistory, vars, tables
<1>6. CASE Finished /\ UNCHANGED ai
  BY <1>1, <1>2, <1>6, StillKeeps DEF Finished, vars, tables, ai
<1>7. CASE Sweeping /\ UNCHANGED <<scene, tables, runs, given, putBack, ai>>
  BY <1>1, <1>2, <1>7, StillKeeps DEF tables, ai
<1>8. ASSUME NEW r \in Requests, Bartending(r)
      PROVE  QuotaInv'
  <2>1. CASE Generate(r) \/ ToolTurn(r) \/ ModelFails(r) \/ ModelAnswers(r) \/ Compare(r) \/ Record(r)
    <3>1. UNCHANGED <<scene, users, day, quota>>
      BY <2>1 DEF Generate, ToolTurn, ModelFails, ModelAnswers, Compare, Record, Keep, tables, ai
    <3>2. QED
      BY <1>1, <2>1, <3>1, TalkKeepsShape, TalkCharges DEF QuotaInv, Books
  <2>2. CASE Consume(r)
    <3>1. UNCHANGED <<scene, users, day>> /\ RunShape' /\ OrderShape' /\ Unpaid'
      BY <1>1, <2>2, TalkKeepsShape
    <3>2. quota' = quota \/ quota' = [quota EXCEPT ![<<Ask(r).user, day>>] = @ + 1]
      BY <2>2 DEF Consume
    <3>3. Books'
      BY <1>1, <3>1, <3>2 DEF QuotaInv, Books
    <3>4. QED
      BY <1>1, <2>2, <3>1, <3>3, ConsumeCharges DEF QuotaInv
  <2>3. CASE SaveRead(r) \/ LookUp(r) \/ MakeName(r) \/ SaveCocktail(r) \/ SaveMark(r) \/ Discard(r)
    BY <1>1, <1>2, <2>3, SavesQuiet, QuietKeepsQuota
  <2>4. QED
    BY <1>8, <2>1, <2>2, <2>3 DEF Bartending
<1>9. ASSUME NEW r \in Requests, EraseHistory(r)
      PROVE  QuotaInv'
  BY <1>1, <1>9, EraseHistoryKeeps
<1>10. ASSUME NEW r \in Requests, Recipes(r) \/ Favorites(r) \/ Ratings(r) \/ EraseRead(r) \/ EraseOne(r), UNCHANGED ai
       PROVE  QuotaInv'
  <2>1. Quiets(r)
    BY <1>2, <1>10, RecipesQuiet, OthersQuiet
  <2>2. QED
    BY <1>1, <1>10, <2>1, QuietKeepsQuota DEF ai
<1>11. ASSUME NEW r \in Requests, Pictures(r), UNCHANGED ai
       PROVE  QuotaInv'
  <2>1. CASE Upload(r) \/ UploadFails(r)
    BY <1>1, <1>2, <1>11, <2>1, RecipesQuiet, QuietKeepsQuota DEF ai
  <2>2. CASE ~(Upload(r) \/ UploadFails(r))
    <3>1. UNCHANGED <<scene, runs, users, quota, day>>
      BY <1>11, <2>2 DEF Pictures, IngestImage, tables, ai
    <3>2. QED
      BY <1>1, <1>2, <3>1, StillKeeps
  <2>3. QED
    BY <2>1, <2>2
<1>12. QED
  BY <1>1, <1>3, <1>4, <1>5, <1>6, <1>7, <1>8, <1>9, <1>10, <1>11 DEF BarNext

\* However generations overlap each other, midnight and the erasure of accounts,
\* no user gets more recipes a day than the limit, and a day's count is what was
\* generated on it: consumeUserQuota counts and decides in one statement.
THEOREM QuotaHoldsAlways == BarSpec => []QuotaHolds
<1>1. QuotaInv => QuotaHolds
  BY ChargedMeans DEF QuotaInv
<1>2. QED
  BY <1>1, QuotaInit, QuotaStep, PTL DEF BarSpec

(******************************* the pictures ******************************)
\* A picture that has been put on a cocktail, and one that still may be.
Past(p) == \/ Ask(p).kind = "prepare" /\ photo[p] = "stored"
           \/ Ask(p).kind \in {"create", "update"} /\ runs[p].pc \in {"favorite", "repoint", "done"}
Waits(p) == \/ Ask(p).kind = "prepare" /\ photo[p] \in {"full", "thumb", "saved"}
            \/ Ask(p).kind \in {"create", "update"} /\ runs[p].pc \in {"upload", "insert", "count", "save"}
\* The pictures a cocktail has or had: nobody else's.
Pic(p, c) == \/ p = Null
             \/ c \in DOMAIN scene.cocktails /\ p = scene.cocktails[c].image
             \/ p \in Requests /\ Past(p) /\ runs[p].c = c
HasImage(row) == "image" \in DOMAIN row
Rows == /\ cocktails = [c \in Slots |-> cocktails[c]]
        /\ \A c \in Slots : cocktails[c] # Null => HasImage(cocktails[c])
Pics == \A c \in Slots : Pic(Shown(c), c)
\* What a request has read of a cocktail and will write or act upon.
Reads(r) ==
  /\ Ask(r).kind = "update" /\ runs[r].pc \in {"count", "save"} => runs[r].c \in Slots /\ HasImage(runs[r].row)
  /\ Ask(r).kind = "remove" /\ runs[r].pc = "save" =>
       runs[r].c \in Slots /\ HasImage(runs[r].row) /\ Pic(runs[r].row.image, runs[r].c)
  /\ Ask(r).kind = "resolve" /\ runs[r].pc = "drop-cocktail" => Pic(runs[r].row.image, runs[r].c)
  /\ Ask(r).kind = "rate" /\ runs[r].pc \in Rating =>
       \/ runs[r].c \in Externals
       \/ runs[r].c \in Slots /\ HasImage(runs[r].row) /\ Pic(runs[r].row.image, runs[r].c)
  /\ Ask(r).kind = "erase" /\ runs[r].pc = "erase-cocktails" =>
       \A c \in runs[r].rest : c \in Slots /\ HasImage(runs[r].row[c]) /\ Pic(runs[r].row[c].image, c)
\* How far a picture is when its request has come so far.
PhotoFits(r) ==
  /\ runs[r].pc = "new" \/ (Ask(r).kind = "prepare" /\ runs[r].pc = "insert") => photo[r] = "none"
  /\ Ask(r).kind = "update" /\ runs[r].pc \in {"count", "save"} /\ Ask(r).picture => photo[r] = "saved"
\* What the disk has of a picture that waits: fresh files, as many as were written.
DiskFits == \A f \in disk : f = [pic |-> f.pic, part |-> f.part, old |-> f.old]
JobFits == sweep = [pc |-> sweep.pc, found |-> sweep.found, took |-> sweep.took]
Absent == \A p \in Requests : photo[p] = "none" => \A f \in disk : f.pic # p
Young(p) == \A f \in disk : f.pic = p => f.old = FALSE
Waiting(p) == Waits(p) => /\ Young(p)
                          /\ photo[p] \in {"thumb", "saved"} => HasPart(p, "full")
                          /\ photo[p] = "saved" => HasPart(p, "thumb")
PicInv ==
  /\ scene \in Scenes /\ RunShape /\ photo = [r \in Requests |-> photo[r]]
  /\ Rows /\ Pics /\ DiskFits /\ JobFits /\ Absent /\ PicturesShown
  /\ \A r \in Requests : Reads(r) /\ PhotoFits(r) /\ Waiting(r)

\* What a request's step may do to what a cocktail shows.
Changes(r, c) ==
  \/ Shown(c)' = Shown(c) /\ (c \in putBack' <=> c \in putBack)
  \/ Shown(c)' = Null
  \/ c \in putBack' /\ Pic(Shown(c)', c)
  \/ Shown(c)' = r /\ Waits(r) /\ photo[r] = "saved" /\ disk' = disk /\ Past(r)' /\ runs'[r].c = c
\* What it may unlink.
Unlinks(q) ==
  /\ disk' = Without(q)
  /\ q \in Requests => ~Waits(q)'
  /\ \A c \in Slots \ putBack' : Shown(c)' = q =>
        q = Null \/ \E s \in Requests : Ask(s).kind = "resolve" /\ runs'[s].c = c /\ runs'[s].pc = "failed"
TableStep(r) ==
  /\ Moves(r) /\ UNCHANGED <<scene, sweep>>
  /\ photo' = photo \/ (photo[r] = "none" /\ photo' = [photo EXCEPT ![r] = "full"])
  /\ Past(r) => Past(r)' /\ runs'[r].c = runs[r].c
  /\ Waits(r)' => Waits(r) \/ photo[r] = "none"
  /\ Ask(r).kind = "resolve" => runs[r].pc # "failed"
  /\ PhotoFits(r)' /\ Rows' /\ Reads(r)'
  /\ disk' = disk \/ \E q : Unlinks(q)
  /\ \A c \in Slots : Changes(r, c)

LEMMA SameAsks ==
  ASSUME UNCHANGED scene
  PROVE  Requests' = Requests /\ \A s : Ask(s)' = Ask(s)
  BY DEF Requests, Ask

LEMMA PicStays ==
  ASSUME PicInv, UNCHANGED scene, NEW r \in Requests, Moves(r),
         photo' = photo \/ (photo[r] = "none" /\ photo' = [photo EXCEPT ![r] = "full"]),
         Past(r) => Past(r)' /\ runs'[r].c = runs[r].c
  PROVE  /\ \A p \in Requests : Past(p) => Past(p)' /\ runs'[p].c = runs[p].c
         /\ \A p, c : Pic(p, c) => Pic(p, c)'
         /\ \A p \in Requests : photo'[p] = photo[p] \/ (p = r /\ photo[r] = "none" /\ photo'[r] = "full")
<1>1. Requests' = Requests /\ \A s : Ask(s)' = Ask(s)
  BY SameAsks
<1>2. \A p \in Requests : photo'[p] = photo[p] \/ (p = r /\ photo[r] = "none" /\ photo'[r] = "full")
  BY DEF PicInv
<1>3. \A p \in Requests \ {r} : runs'[p] = runs[p] /\ photo'[p] = photo[p]
  BY <1>2 DEF Moves
<1>4. \A p \in Requests : Past(p) => Past(p)' /\ runs'[p].c = runs[p].c
  BY <1>1, <1>3 DEF Past
<1>5. \A p, c : Pic(p, c) => Pic(p, c)'
  BY <1>1, <1>4 DEF Pic
<1>6. QED
  BY <1>2, <1>4, <1>5

LEMMA PastStays ==
  ASSUME PicInv, NEW r \in Requests, TableStep(r)
  PROVE  /\ \A p \in Requests : Past(p) => Past(p)' /\ runs'[p].c = runs[p].c
         /\ \A p \in Requests : Waits(p)' => (Waits(p) \/ (p = r /\ photo[r] = "none"))
         /\ \A p, c : Pic(p, c) => Pic(p, c)'
         /\ \A p \in Requests : photo'[p] = photo[p] \/ (p = r /\ photo[r] = "none" /\ photo'[r] = "full")
<1>1. Requests' = Requests /\ \A s : Ask(s)' = Ask(s)
  BY SameAsks DEF TableStep
<1>2. /\ \A p \in Requests : photo'[p] = photo[p] \/ (p = r /\ photo[r] = "none" /\ photo'[r] = "full")
      /\ \A p \in Requests : Past(p) => Past(p)' /\ runs'[p].c = runs[p].c
      /\ \A p, c : Pic(p, c) => Pic(p, c)'
  BY PicStays DEF TableStep
<1>3. \A p \in Requests \ {r} : runs'[p] = runs[p] /\ photo'[p] = photo[p]
  BY <1>2 DEF TableStep, Moves
<1>4. \A p \in Requests : Waits(p)' => (Waits(p) \/ (p = r /\ photo[r] = "none"))
  <2>1. ASSUME NEW p \in Requests \ {r}, Waits(p)'
        PROVE  Waits(p)
    BY <1>1, <1>3, <2>1 DEF Waits
  <2>2. Waits(r)' => Waits(r) \/ photo[r] = "none"
    BY DEF TableStep
  <2>3. QED
    BY <2>1, <2>2
<1>5. QED
  BY <1>2, <1>4

LEMMA ReadsStay ==
  ASSUME PicInv, NEW r \in Requests, TableStep(r)
  PROVE  \A s \in Requests : Reads(s)' /\ PhotoFits(s)'
<1>1. Requests' = Requests /\ \A s : Ask(s)' = Ask(s)
  BY SameAsks DEF TableStep
<1>2. \A p, c : Pic(p, c) => Pic(p, c)'
  BY PastStays
<1>3. \A p \in Requests \ {r} : runs'[p] = runs[p] /\ photo'[p] = photo[p]
  BY PastStays DEF TableStep, Moves
<1>4. ASSUME NEW s \in Requests \ {r}
      PROVE  Reads(s)' /\ PhotoFits(s)'
  <2>1. Reads(s) /\ PhotoFits(s)
    BY DEF PicInv
  <2>2. PhotoFits(s)'
    BY <1>1, <1>3, <2>1 DEF PhotoFits
  <2>3. Reads(s)'
    BY <1>1, <1>2, <1>3, <2>1 DEF Reads
  <2>4. QED
    BY <2>2, <2>3
<1>5. QED
  BY <1>4 DEF TableStep

LEMMA DiskStays ==
  ASSUME PicInv, NEW r \in Requests, TableStep(r)
  PROVE  /\ DiskFits' /\ Absent' /\ \A p \in Requests : Waiting(p)'
         /\ disk' \subseteq disk
<1>1. Requests' = Requests
  BY SameAsks DEF TableStep
<1>2. disk' \subseteq disk
  BY DEF TableStep, Unlinks, Without
<1>3. DiskFits' /\ Absent'
  BY <1>1, <1>2, PastStays DEF DiskFits, Absent, PicInv
<1>4. ASSUME NEW p \in Requests, Waits(p)'
      PROVE  Young(p)' /\ (photo'[p] \in {"thumb", "saved"} => HasPart(p, "full")')
                       /\ (photo'[p] = "saved" => HasPart(p, "thumb")')
  <2>1. Waits(p) \/ (p = r /\ photo[r] = "none")
    BY <1>4, PastStays
  <2>2. CASE photo[p] = "none"
    <3>1. \A f \in disk' : f.pic # p
      BY <1>2, <2>2 DEF PicInv, Absent
    <3>2. photo'[p] \in {"none", "full"}
      BY <2>2, PastStays
    <3>3. QED
      BY <3>1, <3>2 DEF Young
  <2>3. CASE photo[p] # "none"
    <3>1. Waits(p) /\ Waiting(p) /\ photo'[p] = photo[p]
      BY <2>1, <2>3, PastStays DEF PicInv
    <3>2. \A f \in disk : f.pic = p => f \in disk'
      BY <1>4 DEF TableStep, Unlinks, Without
    <3>3. QED
      BY <1>2, <3>1, <3>2 DEF Waiting, Young, HasPart
  <2>4. QED
    BY <2>2, <2>3
<1>5. QED
  BY <1>2, <1>3, <1>4 DEF Waiting

LEMMA ShownStays ==
  ASSUME PicInv, NEW r \in Requests, TableStep(r)
  PROVE  Pics' /\ PicturesShown'
<1>1. Requests' = Requests /\ \A s : Ask(s)' = Ask(s)
  BY SameAsks DEF TableStep
<1>2. disk' \subseteq disk
  BY DiskStays
<1>3. ASSUME NEW c \in Slots
      PROVE  Pic(Shown(c), c)'
  <2>1. Pic(Shown(c), c) /\ Changes(r, c)
    BY DEF PicInv, Pics, TableStep
  <2>2. \A p, d : Pic(p, d) => Pic(p, d)'
    BY PastStays
  <2>3. CASE Shown(c)' = Shown(c)
    BY <2>1, <2>2, <2>3 DEF Pic
  <2>4. CASE Shown(c)' = Null
    BY <2>4 DEF Pic
  <2>5. CASE Pic(Shown(c)', c)
    <3>1. PICK p : p = Shown(c)'
      OBVIOUS
    <3>2. Pic(p, c)'
      BY <2>2, <2>5, <3>1
    <3>3. QED
      BY <3>1, <3>2 DEF Pic
  <2>6. CASE Shown(c)' = r /\ Past(r)' /\ runs'[r].c = c
    BY <1>1, <2>6 DEF Pic
  <2>7. QED
    BY <2>1, <2>3, <2>4, <2>5, <2>6 DEF Changes
<1>4. ASSUME NEW c \in Slots \ putBack', Shown(c)' # Null,
             ~\E s \in Requests : Ask(s).kind = "resolve" /\ runs'[s].c = c /\ runs'[s].pc = "failed"
      PROVE  Accounted(Shown(c))'
  <2>1. Changes(r, c) /\ sweep' = sweep
    BY DEF TableStep
  <2>2. CASE Shown(c)' = Shown(c) /\ (c \in putBack' <=> c \in putBack)
    <3>1. ~\E s \in Requests : Ask(s).kind = "resolve" /\ runs[s].c = c /\ runs[s].pc = "failed"
      <4>1. SUFFICES ASSUME NEW s \in Requests, Ask(s).kind = "resolve", runs[s].c = c, runs[s].pc = "failed"
                     PROVE  FALSE
        OBVIOUS
      <4>2. s # r
        BY <4>1 DEF TableStep
      <4>3. runs'[s] = runs[s]
        BY <4>2 DEF TableStep, Moves
      <4>4. QED
        BY <1>4, <4>1, <4>3
    <3>2. Accounted(Shown(c))
      BY <1>4, <2>2, <3>1 DEF PicInv, PicturesShown
    <3>3. \A f \in disk : f.pic = Shown(c) => f \in disk'
      BY <1>4, <2>2 DEF TableStep, Unlinks, Without
    <3>4. QED
      BY <2>1, <2>2, <3>2, <3>3 DEF Accounted, HasPart
  <2>3. CASE Shown(c)' = r /\ Waits(r) /\ photo[r] = "saved" /\ disk' = disk
    <3>1. HasPart(r, "full") /\ HasPart(r, "thumb")
      BY <2>3 DEF PicInv, Waiting
    <3>2. QED
      BY <2>3, <3>1 DEF Accounted, HasPart, Parts
  <2>4. QED
    BY <1>4, <2>1, <2>2, <2>3 DEF Changes
<1>5. Pics'
  BY <1>3 DEF Pics
<1>6. PicturesShown'
  BY <1>1, <1>4 DEF PicturesShown
<1>7. QED
  BY <1>5, <1>6

LEMMA TableStepKeeps ==
  ASSUME PicInv, NEW r \in Requests, TableStep(r)
  PROVE  PicInv'
<1>1. Requests' = Requests /\ scene' = scene
  BY SameAsks DEF TableStep
<1>2. RunShape'
  BY <1>1, ShapeStays DEF PicInv, TableStep
<1>3. photo' = [s \in Requests' |-> photo'[s]]
  BY <1>1 DEF TableStep, PicInv
<1>4. \A s \in Requests' : Reads(s)' /\ PhotoFits(s)' /\ Waiting(s)'
  BY <1>1, ReadsStay, DiskStays
<1>5. Rows' /\ Pics' /\ DiskFits' /\ JobFits' /\ Absent' /\ PicturesShown'
  BY DiskStays, ShownStays DEF TableStep, PicInv, JobFits
<1>6. QED
  BY <1>1, <1>2, <1>3, <1>4, <1>5 DEF PicInv

\* What the tables show after a step that leaves them, writes a row, or drops one.
LEMMA NotShown ==
  ASSUME PicInv, NEW r \in Requests, ~Past(r), NEW c \in Slots
  PROVE  Shown(c) # r
<1>1. Pic(Shown(c), c) /\ scene \in Scenes
  BY DEF PicInv, Pics
<1>2. r # Null
  BY <1>1, ScenesAssumption, NullAssumption DEF Requests
<1>3. c \in DOMAIN scene.cocktails => scene.cocktails[c].image # r
  BY <1>1, ScenesAssumption DEF Requests
<1>4. QED
  BY <1>1, <1>2, <1>3 DEF Pic

LEMMA OnePlace ==
  ASSUME PicInv, NEW p, NEW c, NEW d, Pic(p, c), Pic(p, d), p # Null
  PROVE  c = d
<1>1. scene \in Scenes
  BY DEF PicInv
<1>2. QED
  BY <1>1, ScenesAssumption DEF Pic, Requests

LEMMA LeavesTables ==
  ASSUME PicInv, UNCHANGED <<cocktails, putBack>>, NEW r
  PROVE  Rows' /\ \A c \in Slots : Changes(r, c) /\ Shown(c)' = Shown(c)
  BY DEF PicInv, Rows, Changes, Shown

LEMMA WritesRow ==
  ASSUME PicInv, NEW r, NEW d \in Slots, NEW row, NEW fresh,
         cocktails' = [cocktails EXCEPT ![d] = row], HasImage(row), Tracked(d, row.image, fresh),
         \/ Pic(row.image, d) /\ ~fresh
         \/ row.image = Shown(d)
         \/ row.image = r /\ Waits(r) /\ photo[r] = "saved" /\ disk' = disk /\ Past(r)' /\ runs'[r].c = d
  PROVE  Rows' /\ \A c \in Slots : Changes(r, c)
<1>1. cocktails = [c \in Slots |-> cocktails[c]] /\ \A c \in Slots : cocktails[c] # Null => HasImage(cocktails[c])
  BY DEF PicInv, Rows
<1>2. Rows'
  BY <1>1 DEF Rows, HasImage
<1>3. Shown(d)' \in {Null, row.image} /\ cocktails'[d] = row
  BY <1>1 DEF Shown
<1>4. Changes(r, d)
  <2>1. CASE row.image = Shown(d)
    BY <1>3, <2>1 DEF Tracked, Changes
  <2>2. CASE row.image # Shown(d) /\ Pic(row.image, d) /\ ~fresh
    BY <1>3, <2>2 DEF Tracked, Changes, Pic
  <2>3. CASE row.image = r /\ Waits(r) /\ photo[r] = "saved" /\ disk' = disk /\ Past(r)' /\ runs'[r].c = d
    BY <1>3, <2>3 DEF Changes
  <2>4. QED
    BY <2>1, <2>2, <2>3
<1>5. ASSUME NEW c \in Slots \ {d}
      PROVE  Changes(r, c)
  BY <1>1, <1>5 DEF Changes, Shown, Tracked
<1>6. QED
  BY <1>2, <1>4, <1>5

LEMMA DropsRow ==
  ASSUME PicInv, NEW r, NEW d, cocktails' = [cocktails EXCEPT ![d] = Null], putBack' = putBack
  PROVE  /\ Rows' /\ \A c \in Slots : Changes(r, c)
         /\ \A c \in Slots : Shown(c)' = IF c = d THEN Null ELSE Shown(c)
<1>1. cocktails = [c \in Slots |-> cocktails[c]] /\ \A c \in Slots : cocktails[c] # Null => HasImage(cocktails[c])
  BY DEF PicInv, Rows
<1>2. Rows'
  BY <1>1 DEF Rows, HasImage
<1>3. \A c \in Slots : Shown(c)' = IF c = d THEN Null ELSE Shown(c)
  BY <1>1 DEF Shown
<1>4. QED
  BY <1>2, <1>3 DEF Changes

\* Unlinking what has not been put on a cocktail.
LEMMA OwnUnlinked ==
  ASSUME PicInv, NEW r \in Requests, ~Past(r), ~Waits(r)', UNCHANGED cocktails, disk' = Without(r)
  PROVE  Unlinks(r)
<1>1. \A c \in Slots : Shown(c)' # r
  BY NotShown DEF Shown
<1>2. QED
  BY <1>1 DEF Unlinks

\* Requests that bring no picture.
LEMMA PlainStep ==
  ASSUME PicInv, NEW r \in Requests, Moves(r), UNCHANGED <<scene, photo, sweep>>,
         Ask(r).kind \notin {"create", "update", "prepare"},
         Ask(r).kind = "resolve" => runs[r].pc # "failed",
         Rows', Reads(r)', disk' = disk \/ \E q : Unlinks(q), \A c \in Slots : Changes(r, c)
  PROVE  TableStep(r)
<1>1. Ask(r)' = Ask(r) /\ runs'[r].pc # "new"
  BY SameAsks DEF Moves, Lands
<1>2. ~Past(r) /\ ~Waits(r)' /\ PhotoFits(r)'
  BY <1>1 DEF Past, Waits, PhotoFits
<1>3. QED
  BY <1>2 DEF TableStep

LEMMA AsideStep ==
  ASSUME PicInv, NEW r \in Requests, Moves(r), UNCHANGED <<scene, photo, sweep, disk>>,
         Ask(r).kind \in AsideKinds \cup {"generate", "regenerate"},
         Rows', \A c \in Slots : Changes(r, c)
  PROVE  TableStep(r)
<1>1. Ask(r)' = Ask(r)
  BY SameAsks
<1>2. Reads(r)'
  BY <1>1 DEF Reads, AsideKinds
<1>3. QED
  BY <1>2, PlainStep DEF AsideKinds

\* Requests that may bring one, while they leave tables and disk alone.
LEMMA CalmStep ==
  ASSUME PicInv, NEW r \in Requests, Moves(r), UNCHANGED <<scene, photo, sweep, disk, cocktails, putBack>>,
         Ask(r).kind \in {"create", "update", "prepare"},
         Past(r) => Past(r)' /\ runs'[r].c = runs[r].c,
         Waits(r)' => Waits(r) \/ photo[r] = "none",
         PhotoFits(r)', Reads(r)'
  PROVE  TableStep(r)
  BY LeavesTables DEF TableStep

LEMMA RecipeStarts ==
  ASSUME PicInv, NEW r \in Requests, PrepareFind(r) \/ Upload(r) \/ UploadFails(r) \/ CreateStart(r) \/ UpdateCount(r)
  PROVE  TableStep(r)
<1>0. Ask(r)' = Ask(r) /\ RunShape /\ PhotoFits(r) /\ Reads(r)
  BY SameAsks DEF PicInv, PrepareFind, Upload, UploadFails, CreateStart, UpdateCount, Keep
<1>1. CASE PrepareFind(r)
  <2>1. /\ Moves(r) /\ Ask(r).kind = "prepare" /\ runs'[r].pc \in {"done", "refused", "insert"} /\ runs[r].pc = "new"
        /\ UNCHANGED <<scene, photo, sweep, disk, cocktails, putBack>>
    BY <1>0, <1>1, PrepareFindDoes DEF PrepareFind, Keep, tables, pictures, Starts, At
  <2>2. photo[r] = "none"
    BY <1>0, <2>1 DEF PhotoFits
  <2>3. ~Past(r) /\ ~Waits(r)' /\ PhotoFits(r)' /\ Reads(r)'
    BY <1>0, <2>1, <2>2 DEF Past, Waits, PhotoFits, Reads
  <2>4. QED
    BY <2>1, <2>3, CalmStep
<1>2. CASE Upload(r)
  <2>1. /\ Moves(r) /\ Ask(r).kind \in {"create", "update"} /\ runs[r].pc = "new" /\ runs'[r].pc = "upload"
        /\ UNCHANGED <<scene, sweep, disk, cocktails, putBack>> /\ photo' = [photo EXCEPT ![r] = "full"]
    BY <1>0, <1>2, UploadDoes DEF Upload, tables
  <2>2. photo[r] = "none"
    BY <1>0, <2>1 DEF PhotoFits
  <2>3. ~Past(r) /\ PhotoFits(r)' /\ Reads(r)'
    BY <1>0, <2>1 DEF Past, PhotoFits, Reads
  <2>4. QED
    BY <2>1, <2>2, <2>3, LeavesTables DEF TableStep
<1>3. CASE UploadFails(r)
  <2>1. /\ Moves(r) /\ Ask(r).kind \in {"create", "update"} /\ runs[r].pc = "upload" /\ runs'[r].pc = "failed"
        /\ UNCHANGED <<scene, photo, sweep, disk, cocktails, putBack>>
    BY <1>0, <1>3, UploadFailsDoes DEF UploadFails, Keep, tables, pictures
  <2>2. ~Past(r) /\ ~Waits(r)' /\ PhotoFits(r)' /\ Reads(r)'
    BY <1>0, <2>1 DEF Past, Waits, PhotoFits, Reads
  <2>3. QED
    BY <2>1, <2>2, CalmStep
<1>4. CASE CreateStart(r)
  <2>1. /\ Moves(r) /\ Ask(r).kind = "create" /\ runs[r].pc \in {"new", "upload"} /\ runs'[r].pc = "insert"
        /\ UNCHANGED <<scene, photo, sweep, disk, cocktails, putBack>>
    BY <1>0, <1>4, CreateStartDoes DEF CreateStart, Keep, tables, pictures
  <2>2. ~Past(r) /\ PhotoFits(r)' /\ Reads(r)' /\ (Waits(r) \/ photo[r] = "none")
    BY <1>0, <2>1 DEF Past, Waits, PhotoFits, Reads
  <2>3. QED
    BY <2>1, <2>2, CalmStep
<1>5. CASE UpdateCount(r)
  <2>1. /\ Moves(r) /\ Ask(r).kind = "update" /\ runs[r].pc = "count" /\ runs'[r].pc \in {"insert", "save"}
        /\ runs'[r].c = runs[r].c /\ runs'[r].row = runs[r].row
        /\ UNCHANGED <<scene, photo, sweep, disk, cocktails, putBack>>
    BY <1>0, <1>5, UpdateCountDoes DEF UpdateCount, Keep, tables, pictures
  <2>2. ~Past(r) /\ PhotoFits(r)' /\ Reads(r)' /\ Waits(r)
    BY <1>0, <2>1 DEF Past, Waits, PhotoFits, Reads
  <2>3. QED
    BY <2>1, <2>2, CalmStep
<1>6. QED
  BY <1>1, <1>2, <1>3, <1>4, <1>5

LEMMA InsertSteps ==
  ASSUME PicInv, NEW r \in Requests, Insert(r)
  PROVE  TableStep(r)
<1>1. Ask(r)' = Ask(r) /\ RunShape /\ PhotoFits(r) /\ runs[r].pc = "insert" /\ r # Null
  BY SameAsks, ScenesAssumption, NullAssumption DEF PicInv, Insert, Requests
<1>2. /\ Moves(r) /\ Ask(r).kind \in {"create", "update", "prepare"} /\ UNCHANGED <<scene, sweep, putBack>>
  BY <1>1, InsertDoes DEF Insert
<1>3. ~Past(r) /\ (Ask(r).kind = "prepare" => photo[r] = "none")
  BY <1>1, <1>2 DEF Past, PhotoFits
<1>4. CASE Ask(r).user \notin users
  <2>1. runs'[r].pc = "failed" /\ disk' = Without(r) /\ UNCHANGED <<cocktails, photo>>
    <3>1. disk' = Without(r) /\ UNCHANGED <<cocktails, photo>> /\ To(r, "failed")
      BY <1>4 DEF Insert
    <3>2. QED
      BY <1>1, <1>2, <3>1, ToStep DEF Lands, Place, Talking
  <2>2. ~Waits(r)' /\ PhotoFits(r)' /\ Reads(r)'
    BY <1>1, <1>2, <1>3, <2>1 DEF Waits, PhotoFits, Reads
  <2>3. Unlinks(r)
    BY <1>3, <2>1, <2>2, OwnUnlinked
  <2>4. QED
    BY <1>2, <1>3, <2>1, <2>2, <2>3, LeavesTables DEF TableStep
<1>5. CASE Ask(r).user \in users
  <2>1. PICK c \in Slots :
          /\ cocktails[c] = Null /\ disk' = disk
          /\ photo' = photo \/ (Ask(r).kind = "prepare" /\ photo' = [photo EXCEPT ![r] = "full"])
          /\ cocktails' = [cocktails EXCEPT ![c] = Made(r)]
          /\ Go(r, [runs[r] EXCEPT !.c = c, !.pc = IF Made(r).parent \in Externals THEN "favorite" ELSE "done"])
    BY <1>5 DEF Insert
  <2>2. PICK pc \in {"favorite", "done"} : Go(r, [runs[r] EXCEPT !.c = c, !.pc = pc])
    BY <2>1
  <2>3. runs'[r].pc = pc /\ runs'[r].c = c
    <3>1. PICK q : q = [runs[r] EXCEPT !.c = c, !.pc = pc] /\ Go(r, q)
      BY <2>2
    <3>2. q.pc = pc /\ q.c = c
      BY <1>1, <3>1 DEF RunShape, Fits
    <3>3. QED
      BY <1>1, <3>1, <3>2 DEF Go, RunShape
  <2>4. /\ PhotoFits(r)' /\ Reads(r)' /\ (Waits(r)' => photo[r] = "none")
        /\ photo' = photo \/ (photo[r] = "none" /\ photo' = [photo EXCEPT ![r] = "full"])
    BY <1>1, <1>2, <1>3, <2>1, <2>3 DEF PhotoFits, Reads, Waits
  <2>5. /\ HasImage(Made(r))
        /\ Made(r).image = Null \/ (Ask(r).kind = "create" /\ Made(r).image = r /\ photo[r] = "saved")
    <3>1. ASSUME NEW u, NEW pub, NEW p, NEW t
          PROVE  HasImage(Row(u, pub, p, t)) /\ Row(u, pub, p, t).image = Null
      BY DEF HasImage, Row
    <3>2. CASE Ask(r).kind \in {"prepare", "update"}
      <4>1. \E text : Made(r) = Row(Ask(r).user, TRUE, Ask(r).on, text)
        BY <3>2 DEF Made, Imported
      <4>2. QED
        BY <3>1, <4>1
    <3>3. CASE Ask(r).kind = "create"
      <4>1. PICK row : row = Row(Ask(r).user, Ask(r).public, Ask(r).on, Ask(r).content)
        OBVIOUS
      <4>2. Made(r) = [row EXCEPT !.image = Uploaded(r)]
        BY <3>3, <4>1 DEF Made
      <4>3. HasImage(row)
        BY <3>1, <4>1
      <4>4. HasImage(Made(r)) /\ Made(r).image = Uploaded(r)
        BY <4>2, <4>3 DEF HasImage
      <4>5. QED
        BY <3>3, <4>4 DEF Uploaded
    <3>4. QED
      BY <1>2, <3>2, <3>3
  <2>6. Tracked(c, Made(r).image, TRUE) \/ Made(r).image = r
    BY <1>2, <2>1, <2>5 DEF Tracked, Shown
  <2>7. Rows' /\ \A d \in Slots : Changes(r, d)
    <3>1. CASE Made(r).image = Null
      <4>1. Made(r).image = Shown(c) /\ Tracked(c, Made(r).image, FALSE)
        BY <1>2, <2>1, <3>1 DEF Tracked, Shown
      <4>2. QED
        BY <2>1, <2>5, <4>1, WritesRow
    <3>2. CASE Ask(r).kind = "create" /\ Made(r).image = r /\ photo[r] = "saved"
      <4>1. Waits(r) /\ Past(r)'
        BY <1>1, <2>3, <3>2 DEF Waits, Past
      <4>2. cocktails = [d \in Slots |-> cocktails[d]] /\ Shown(c)' \in {Null, r}
        BY <2>1, <3>2 DEF PicInv, Rows, Shown
      <4>3. Rows'
        BY <2>1, <2>5 DEF PicInv, Rows, HasImage
      <4>4. Changes(r, c)
        BY <2>1, <2>3, <3>2, <4>1, <4>2 DEF Changes
      <4>5. \A d \in Slots \ {c} : Changes(r, d)
        BY <1>2, <2>1, <4>2 DEF Changes, Shown
      <4>6. QED
        BY <4>3, <4>4, <4>5
    <3>3. QED
      BY <2>5, <3>1, <3>2
  <2>8. QED
    BY <1>2, <1>3, <2>1, <2>4, <2>7 DEF TableStep
<1>6. QED
  BY <1>4, <1>5

LEMMA UpdateReads ==
  ASSUME PicInv, NEW r \in Requests, UpdateRead(r)
  PROVE  TableStep(r)
<1>1. Ask(r)' = Ask(r) /\ RunShape /\ PhotoFits(r)
  BY SameAsks DEF PicInv, UpdateRead, Beside
<1>2. /\ Moves(r) /\ Ask(r).kind = "update" /\ runs[r].pc \in {"new", "upload"}
      /\ IF Ask(r).picture THEN photo[r] = "saved" ELSE runs[r].pc = "new"
      /\ UNCHANGED <<scene, photo, sweep, cocktails, putBack>>
  BY <1>1, UpdateReadDoes DEF UpdateRead, Beside, tables
<1>3. ~Past(r) /\ (Waits(r) \/ photo[r] = "none")
  BY <1>1, <1>2 DEF Past, Waits, PhotoFits
<1>4. CASE /\ Live(Ask(r).on) /\ disk' = disk
           /\ runs'[r].pc = "count" /\ runs'[r].c = Ask(r).on /\ runs'[r].row = cocktails[Ask(r).on]
  <2>1. PhotoFits(r)'
    BY <1>1, <1>2, <1>4 DEF PhotoFits
  <2>2. Ask(r).on \in Slots /\ HasImage(cocktails[Ask(r).on])
    BY <1>4 DEF Live, PicInv, Rows
  <2>3. Reads(r)'
    BY <1>1, <1>2, <1>4, <2>2 DEF Reads, HasImage
  <2>4. QED
    BY <1>2, <1>3, <1>4, <2>1, <2>3, CalmStep
<1>5. CASE runs'[r].pc = "refused" /\ disk' = Without(r)
  <2>1. ~Waits(r)' /\ PhotoFits(r)' /\ Reads(r)'
    BY <1>1, <1>2, <1>5 DEF Waits, PhotoFits, Reads
  <2>2. Unlinks(r)
    BY <1>2, <1>3, <1>5, <2>1, OwnUnlinked
  <2>3. QED
    BY <1>2, <1>3, <2>1, <2>2, LeavesTables DEF TableStep
<1>6. QED
  BY <1>1, <1>4, <1>5, UpdateReadDoes

LEMMA UpdateSaves ==
  ASSUME PicInv, NEW r \in Requests, UpdateSave(r)
  PROVE  TableStep(r)
<1>1. /\ Ask(r)' = Ask(r) /\ RunShape /\ PhotoFits(r) /\ Ask(r).kind = "update" /\ runs[r].pc = "save"
      /\ UNCHANGED <<scene, photo, sweep>>
  BY SameAsks DEF PicInv, UpdateSave, Beside, At
<1>2. runs[r].c \in Slots /\ HasImage(runs[r].row)
  BY <1>1 DEF PicInv, Reads
<1>3. PICK image : image = IF Ask(r).picture THEN r ELSE Shown(runs[r].c)
  OBVIOUS
<1>4. PICK row : row = [runs[r].row EXCEPT !.content = Ask(r).content, !.image = image] /\ SaveRow(r, row)
  BY <1>3 DEF UpdateSave
<1>5. HasImage(row) /\ row.image = image
  BY <1>2, <1>4 DEF HasImage
<1>6. /\ Moves(r) /\ runs'[r].c = runs[r].c
      /\ \/ /\ runs'[r].pc = "done" /\ cocktails' = [cocktails EXCEPT ![runs[r].c] = row]
            /\ Tracked(runs[r].c, row.image, row.image = r) /\ disk' = disk
         \/ runs'[r].pc = "failed" /\ disk' = Without(r) /\ UNCHANGED <<cocktails, putBack>>
  BY <1>1, <1>4, SaveRowDoes
<1>7. ~Past(r) /\ Waits(r) /\ ~Waits(r)' /\ PhotoFits(r)' /\ Reads(r)'
  BY <1>1, <1>6 DEF Past, Waits, PhotoFits, Reads
<1>8. CASE /\ runs'[r].pc = "done" /\ cocktails' = [cocktails EXCEPT ![runs[r].c] = row]
           /\ Tracked(runs[r].c, row.image, row.image = r) /\ disk' = disk
  <2>1. Past(r)'
    BY <1>1, <1>8 DEF Past
  <2>2. Ask(r).picture => photo[r] = "saved"
    BY <1>1 DEF PhotoFits
  <2>3. PICK fresh : fresh = (row.image = r)
    OBVIOUS
  <2>4. Tracked(runs[r].c, row.image, fresh)
    BY <1>8, <2>3
  <2>5. \/ row.image = Shown(runs[r].c)
        \/ row.image = r /\ Waits(r) /\ photo[r] = "saved" /\ disk' = disk /\ Past(r)' /\ runs'[r].c = runs[r].c
    BY <1>3, <1>5, <1>6, <1>7, <1>8, <2>1, <2>2
  <2>6. Rows' /\ \A c \in Slots : Changes(r, c)
    BY <1>2, <1>5, <1>8, <2>4, <2>5, WritesRow
  <2>7. QED
    BY <1>1, <1>6, <1>7, <1>8, <2>6 DEF TableStep
<1>9. CASE runs'[r].pc = "failed" /\ disk' = Without(r) /\ UNCHANGED <<cocktails, putBack>>
  <2>1. Unlinks(r)
    BY <1>7, <1>9, OwnUnlinked
  <2>2. QED
    BY <1>1, <1>6, <1>7, <1>9, <2>1, LeavesTables DEF TableStep
<1>10. QED
  BY <1>6, <1>8, <1>9

LEMMA RemoveSteps ==
  ASSUME PicInv, NEW r \in Requests, RemoveRead(r) \/ RemoveSave(r)
  PROVE  TableStep(r)
<1>0. /\ Ask(r)' = Ask(r) /\ RunShape /\ Ask(r).kind = "remove" /\ UNCHANGED <<scene, photo, sweep>>
  BY SameAsks DEF PicInv, RemoveRead, RemoveSave, Keep, Beside, Starts, At, pictures
<1>1. ~Past(r)
  BY <1>0 DEF Past
<1>2. CASE RemoveRead(r)
  <2>1. /\ Moves(r) /\ UNCHANGED <<disk, cocktails, putBack>>
        /\ \/ /\ Live(Ask(r).on)
              /\ runs'[r].pc = "save" /\ runs'[r].c = Ask(r).on /\ runs'[r].row = cocktails[Ask(r).on]
           \/ runs'[r].pc = "refused"
    BY <1>0, <1>2, RemoveReadDoes DEF RemoveRead, Keep, tables, pictures
  <2>2. Reads(r)'
    <3>1. CASE runs'[r].pc = "refused"
      BY <1>0, <3>1 DEF Reads
    <3>2. CASE /\ Live(Ask(r).on)
               /\ runs'[r].pc = "save" /\ runs'[r].c = Ask(r).on /\ runs'[r].row = cocktails[Ask(r).on]
      <4>1. PICK c \in Slots : c = Ask(r).on /\ cocktails[c] # Null
        BY <3>2 DEF Live
      <4>2. HasImage(cocktails[c]) /\ Pic(cocktails[c].image, c)
        BY <4>1 DEF PicInv, Rows, Pics, Shown
      <4>3. PICK p : p = cocktails[c].image
        OBVIOUS
      <4>4. Pic(p, c)'
        BY <1>0, <1>1, <2>1, <4>2, <4>3, PicStays
      <4>5. runs'[r].row.image = p /\ runs'[r].c = c
        BY <3>2, <4>1, <4>3
      <4>6. QED
        BY <1>0, <3>2, <4>1, <4>2, <4>4, <4>5 DEF Reads, HasImage, Pic
    <3>3. QED
      BY <2>1, <3>1, <3>2
  <2>3. QED
    BY <1>0, <2>1, <2>2, LeavesTables, PlainStep
<1>3. CASE RemoveSave(r)
  <2>1. runs[r].pc = "save"
    BY <1>3 DEF RemoveSave, At
  <2>2. runs[r].c \in Slots /\ HasImage(runs[r].row) /\ Pic(runs[r].row.image, runs[r].c)
    BY <1>0, <2>1 DEF PicInv, Reads
  <2>3. PICK row : row = [runs[r].row EXCEPT !.deleted = TRUE] /\ SaveRow(r, row)
    BY <1>3 DEF RemoveSave
  <2>4. HasImage(row) /\ row.image = runs[r].row.image
    BY <2>2, <2>3 DEF HasImage
  <2>5. /\ Moves(r) /\ runs'[r].c = runs[r].c
        /\ \/ /\ runs'[r].pc = "done" /\ cocktails' = [cocktails EXCEPT ![runs[r].c] = row]
              /\ Tracked(runs[r].c, row.image, row.image = r) /\ disk' = disk
           \/ runs'[r].pc = "failed" /\ disk' = Without(r) /\ UNCHANGED <<cocktails, putBack>>
    BY <1>0, <2>1, <2>3, SaveRowDoes
  <2>6. Reads(r)' /\ ~Waits(r)'
    BY <1>0, <2>5 DEF Reads, Waits
  <2>7. CASE /\ runs'[r].pc = "done" /\ cocktails' = [cocktails EXCEPT ![runs[r].c] = row]
             /\ Tracked(runs[r].c, row.image, row.image = r) /\ disk' = disk
    <3>1. row.image # r
      <4>1. r # Null /\ (runs[r].c \in DOMAIN scene.cocktails => scene.cocktails[runs[r].c].image # r)
        BY ScenesAssumption, NullAssumption DEF PicInv, Requests
      <4>2. QED
        BY <1>1, <2>2, <2>4, <4>1 DEF Pic
    <3>2. Tracked(runs[r].c, row.image, FALSE)
      BY <2>7, <3>1
    <3>3. Rows' /\ \A c \in Slots : Changes(r, c)
      BY <2>2, <2>4, <2>7, <3>2, WritesRow
    <3>4. QED
      BY <1>0, <2>5, <2>6, <2>7, <3>3, PlainStep
  <2>8. CASE runs'[r].pc = "failed" /\ disk' = Without(r) /\ UNCHANGED <<cocktails, putBack>>
    <3>1. Unlinks(r)
      BY <1>1, <2>6, <2>8, OwnUnlinked
    <3>2. QED
      BY <1>0, <2>5, <2>6, <2>8, <3>1, LeavesTables, PlainStep
  <2>9. QED
    BY <2>5, <2>7, <2>8
<1>4. QED
  BY <1>2, <1>3

LEMMA ResolveSteps ==
  ASSUME PicInv, NEW r \in Requests, ResolveRead(r) \/ Resolve(r)
  PROVE  TableStep(r)
<1>0. /\ Ask(r)' = Ask(r) /\ RunShape /\ Ask(r).kind = "resolve" /\ UNCHANGED <<scene, photo, sweep, putBack>>
  BY SameAsks DEF PicInv, ResolveRead, Resolve, Keep, Beside, Starts, At, pictures
<1>1. ~Past(r)
  BY <1>0 DEF Past
<1>2. CASE ResolveRead(r)
  <2>1. /\ Moves(r) /\ UNCHANGED <<disk, cocktails>> /\ runs[r].pc = "new"
        /\ \/ /\ cocktails[Ask(r).on] # Null
              /\ runs'[r].pc = "drop-cocktail" /\ runs'[r].c = Ask(r).on /\ runs'[r].row = cocktails[Ask(r).on]
           \/ runs'[r].pc = "done" /\ runs'[r].c = runs[r].c
    BY <1>0, <1>2, ResolveReadDoes DEF ResolveRead, Keep, tables, pictures
  <2>2. Reads(r)'
    <3>1. CASE runs'[r].pc = "done"
      BY <1>0, <3>1 DEF Reads
    <3>2. CASE /\ cocktails[Ask(r).on] # Null
               /\ runs'[r].pc = "drop-cocktail" /\ runs'[r].c = Ask(r).on /\ runs'[r].row = cocktails[Ask(r).on]
      <4>1. PICK c \in Slots : c = Ask(r).on /\ cocktails[c] # Null
        BY <1>0, <3>2, ScenesAssumption DEF PicInv, Requests, Ask, Slots
      <4>2. Pic(cocktails[c].image, c)
        BY <4>1 DEF PicInv, Pics, Shown
      <4>3. PICK p : p = cocktails[c].image
        OBVIOUS
      <4>4. Pic(p, c)'
        BY <1>0, <1>1, <2>1, <4>2, <4>3, PicStays
      <4>5. runs'[r].row.image = p /\ runs'[r].c = c
        BY <3>2, <4>1, <4>3
      <4>6. QED
        BY <1>0, <3>2, <4>1, <4>2, <4>4, <4>5 DEF Reads, Pic
    <3>3. QED
      BY <2>1, <3>1, <3>2
  <2>3. QED
    BY <1>0, <2>1, <2>2, LeavesTables, PlainStep
<1>3. CASE Resolve(r)
  <2>1. /\ Moves(r) /\ runs[r].pc = "drop-cocktail" /\ runs'[r].c = runs[r].c
        /\ disk' = Without(runs[r].row.image)
        /\ \/ runs'[r].pc = "done" /\ cocktails' = [cocktails EXCEPT ![runs[r].c] = Null]
           \/ runs'[r].pc = "failed" /\ cocktails' = cocktails
    BY <1>0, <1>3, ResolveDoes
  <2>2. PICK q : q = runs[r].row.image
    OBVIOUS
  <2>3. Pic(q, runs[r].c)
    BY <1>0, <2>1, <2>2 DEF PicInv, Reads
  <2>4. Reads(r)'
    BY <1>0, <2>1 DEF Reads
  <2>5. /\ Rows' /\ \A c \in Slots : Changes(r, c)
        /\ \A c \in Slots : Shown(c)' = Shown(c) \/ Shown(c)' = Null
        /\ \A c \in Slots : c = runs[r].c => Shown(c)' = Null \/ runs'[r].pc = "failed"
    BY <1>0, <2>1, LeavesTables, DropsRow
  <2>6. q \in Requests => ~Waits(q)'
    <3>1. SUFFICES ASSUME q \in Requests, Waits(q)' PROVE FALSE
      OBVIOUS
    <3>2. Past(q)
      <4>1. q # Null /\ (runs[r].c \in DOMAIN scene.cocktails => scene.cocktails[runs[r].c].image # q)
        BY <3>1, ScenesAssumption, NullAssumption DEF PicInv, Requests
      <4>2. QED
        BY <2>3, <4>1 DEF Pic
    <3>3. Past(q)' /\ Ask(q)' = Ask(q)
      BY <1>0, <1>1, <2>1, <3>1, <3>2, PicStays, SameAsks
    <3>4. QED
      BY <3>1, <3>3 DEF Past, Waits
  <2>7. ASSUME NEW c \in Slots \ putBack', Shown(c)' = q, q # Null
        PROVE  c = runs[r].c /\ runs'[r].pc = "failed"
    <3>1. Pic(q, c)
      BY <2>5, <2>7 DEF PicInv, Pics
    <3>2. c = runs[r].c
      BY <2>3, <2>7, <3>1, OnePlace
    <3>3. QED
      BY <2>5, <2>7, <3>2
  <2>8. Unlinks(q)
    BY <1>0, <2>1, <2>2, <2>6, <2>7 DEF Unlinks
  <2>9. QED
    BY <1>0, <2>1, <2>4, <2>5, <2>8, PlainStep
<1>4. QED
  BY <1>2, <1>3

LEMMA RateSteps ==
  ASSUME PicInv, NEW r \in Requests,
         RateTarget(r) \/ RateFind(r) \/ RateStore(r) \/ RateAverage(r) \/ RateSave(r)
  PROVE  TableStep(r)
<1>0. /\ Ask(r)' = Ask(r) /\ RunShape /\ Ask(r).kind = "rate" /\ UNCHANGED <<scene, photo, sweep, disk>>
  BY SameAsks DEF PicInv, RateTarget, RateFind, RateStore, RateAverage, RateSave, Keep, Starts, At, pictures
<1>1. ~Past(r)
  BY <1>0 DEF Past
<1>2. CASE RateTarget(r)
  <2>1. /\ Moves(r) /\ UNCHANGED <<cocktails, putBack>>
        /\ \/ /\ runs'[r].pc = "rate-find"
              /\ \/ runs'[r].c \in Slots /\ cocktails[runs'[r].c] # Null /\ runs'[r].row = cocktails[runs'[r].c]
                 \/ runs'[r].c \in Externals
           \/ runs'[r].pc = "refused"
    BY <1>0, <1>2, RateTargetDoes DEF RateTarget, Keep, tables
  <2>2. Reads(r)'
    <3>1. CASE runs'[r].pc = "refused" \/ runs'[r].c \in Externals
      BY <1>0, <3>1 DEF Reads, Rating
    <3>2. CASE runs'[r].c \in Slots /\ cocktails[runs'[r].c] # Null /\ runs'[r].row = cocktails[runs'[r].c]
      <4>1. PICK c \in Slots : c = runs'[r].c /\ cocktails[c] # Null
        BY <3>2
      <4>2. HasImage(cocktails[c]) /\ Pic(cocktails[c].image, c)
        BY <4>1 DEF PicInv, Rows, Pics, Shown
      <4>3. PICK p : p = cocktails[c].image
        OBVIOUS
      <4>4. Pic(p, c)'
        BY <1>0, <1>1, <2>1, <4>2, <4>3, PicStays
      <4>5. runs'[r].row.image = p /\ runs'[r].c = c
        BY <3>2, <4>1, <4>3
      <4>6. QED
        BY <1>0, <3>2, <4>1, <4>2, <4>4, <4>5 DEF Reads, HasImage, Pic
    <3>3. QED
      BY <2>1, <3>1, <3>2
  <2>3. QED
    BY <1>0, <2>1, <2>2, LeavesTables, PlainStep
<1>3. CASE RateFind(r) \/ RateStore(r) \/ RateAverage(r) \/ RateSave(r)
  <2>1. /\ Moves(r) /\ runs[r].pc \in Rating /\ runs'[r].c = runs[r].c /\ Averaged(r, runs'[r].row)
    BY <1>0, <1>3, RatingDoes
  <2>2. \/ runs[r].c \in Externals
        \/ runs[r].c \in Slots /\ HasImage(runs[r].row) /\ Pic(runs[r].row.image, runs[r].c)
    BY <1>0, <2>1 DEF PicInv, Reads
  <2>3. Reads(r)'
    <3>1. CASE runs[r].c \in Externals
      BY <1>0, <2>1, <3>1 DEF Reads
    <3>2. CASE runs[r].c \in Slots /\ HasImage(runs[r].row) /\ Pic(runs[r].row.image, runs[r].c)
      <4>1. HasImage(runs'[r].row) /\ runs'[r].row.image = runs[r].row.image
        BY <2>1, <3>2 DEF Averaged, HasImage
      <4>2. PICK p, c : p = runs[r].row.image /\ c = runs[r].c
        OBVIOUS
      <4>3. Pic(p, c)'
        BY <1>0, <1>1, <2>1, <3>2, <4>2, PicStays
      <4>4. QED
        BY <1>0, <2>1, <3>2, <4>1, <4>2, <4>3 DEF Reads, HasImage, Pic
    <3>3. QED
      BY <2>2, <3>1, <3>2
  <2>4. Rows' /\ \A c \in Slots : Changes(r, c)
    <3>1. CASE UNCHANGED <<cocktails, putBack>>
      BY <3>1, LeavesTables
    <3>2. CASE RateSave(r) /\ runs[r].c \notin Externals
      <4>1. PICK owner : /\ cocktails' = [cocktails EXCEPT ![runs[r].c] = [runs[r].row EXCEPT !.owner = owner]]
                         /\ Tracked(runs[r].c, runs[r].row.image, FALSE)
        BY <3>2 DEF RateSave
      <4>2. PICK row : row = [runs[r].row EXCEPT !.owner = owner]
        OBVIOUS
      <4>3. runs[r].c \in Slots /\ HasImage(row) /\ row.image = runs[r].row.image /\ Pic(row.image, runs[r].c)
        BY <2>2, <3>2, <4>2 DEF HasImage
      <4>4. cocktails' = [cocktails EXCEPT ![runs[r].c] = row] /\ Tracked(runs[r].c, row.image, FALSE)
        BY <4>1, <4>2, <4>3
      <4>5. QED
        BY <4>3, <4>4, WritesRow
    <3>3. QED
      BY <1>3, <3>1, <3>2 DEF RateFind, RateStore, RateAverage, RateSave, Keep, tables
  <2>5. QED
    BY <1>0, <2>1, <2>3, <2>4, PlainStep
<1>4. QED
  BY <1>2, <1>3

LEMMA EraseSteps ==
  ASSUME PicInv, NEW r \in Requests, EraseRead(r) \/ EraseOne(r) \/ EraseData(r) \/ EraseUser(r)
  PROVE  TableStep(r)
<1>0. /\ Ask(r)' = Ask(r) /\ RunShape /\ Ask(r).kind = "erase" /\ UNCHANGED <<scene, photo, sweep>>
  BY SameAsks DEF PicInv, EraseRead, EraseOne, EraseData, EraseUser, Keep, Beside, Starts, At, pictures
<1>1. ~Past(r)
  BY <1>0 DEF Past
<1>2. CASE EraseRead(r)
  <2>1. /\ Moves(r) /\ UNCHANGED <<cocktails, putBack, disk>>
        /\ runs'[r].pc = "erase-cocktails" /\ runs'[r].row = cocktails
        /\ runs'[r].rest \subseteq {c \in Slots : cocktails[c] # Null}
    BY <1>0, <1>2, EraseReadDoes DEF EraseRead, Keep, tables, pictures
  <2>2. ASSUME NEW c \in runs'[r].rest
        PROVE  c \in Slots /\ HasImage(cocktails[c]) /\ Pic(cocktails[c].image, c)'
    <3>1. c \in Slots /\ cocktails[c] # Null
      BY <2>1, <2>2
    <3>2. HasImage(cocktails[c]) /\ Pic(cocktails[c].image, c)
      BY <3>1 DEF PicInv, Rows, Pics, Shown
    <3>3. PICK p : p = cocktails[c].image
      OBVIOUS
    <3>4. Pic(p, c)'
      BY <1>0, <1>1, <2>1, <3>2, <3>3, PicStays
    <3>5. QED
      BY <2>1, <3>1, <3>2, <3>3, <3>4 DEF Pic
  <2>3. Reads(r)'
    BY <1>0, <2>1, <2>2 DEF Reads, HasImage, Pic
  <2>4. QED
    BY <1>0, <2>1, <2>3, LeavesTables, PlainStep
<1>3. CASE EraseOne(r)
  <2>1. /\ Moves(r) /\ runs[r].pc = "erase-cocktails"
        /\ runs'[r].pc = "erase-cocktails" /\ runs'[r].row = runs[r].row /\ runs'[r].rest \subseteq runs[r].rest
        /\ \E c \in runs[r].rest : AnonymizeOrRemove(r, c)
    BY <1>0, <1>3, EraseOneDoes
  <2>2. \A c \in runs[r].rest : c \in Slots /\ HasImage(runs[r].row[c]) /\ Pic(runs[r].row[c].image, c)
    BY <1>0, <2>1 DEF PicInv, Reads
  <2>3. Reads(r)'
    <3>1. ASSUME NEW c \in runs'[r].rest
          PROVE  c \in Slots /\ HasImage(runs[r].row[c]) /\ Pic(runs[r].row[c].image, c)'
      <4>1. PICK p : p = runs[r].row[c].image
        OBVIOUS
      <4>2. Pic(p, c) /\ c \in Slots /\ HasImage(runs[r].row[c])
        BY <2>1, <2>2, <3>1, <4>1
      <4>3. Pic(p, c)'
        BY <1>0, <1>1, <2>1, <4>2, PicStays
      <4>4. QED
        BY <2>1, <4>1, <4>2, <4>3 DEF Pic
    <3>2. QED
      BY <1>0, <2>1, <3>1 DEF Reads, HasImage, Pic
  <2>4. PICK c \in Slots : AnonymizeOrRemove(r, c) /\ HasImage(runs[r].row[c]) /\ Pic(runs[r].row[c].image, c)
    BY <2>1, <2>2
  <2>5. CASE Disown(r, c)
    <3>1. PICK row : row = [runs[r].row[c] EXCEPT !.owner = Null]
      OBVIOUS
    <3>2. HasImage(row) /\ row.image = runs[r].row[c].image
      BY <2>4, <3>1 DEF HasImage
    <3>3. cocktails' = [cocktails EXCEPT ![c] = row] /\ Tracked(c, row.image, FALSE) /\ disk' = disk
      BY <2>5, <3>1, <3>2 DEF Disown
    <3>4. Rows' /\ \A d \in Slots : Changes(r, d)
      BY <2>4, <3>2, <3>3, WritesRow
    <3>5. QED
      BY <1>0, <2>1, <2>3, <3>3, <3>4, PlainStep
  <2>6. CASE ~Disown(r, c)
    <3>1. Drop(c) /\ disk' = Without(runs[r].row[c].image) /\ putBack' = putBack
      BY <2>4, <2>6 DEF AnonymizeOrRemove
    <3>2. /\ Rows' /\ \A d \in Slots : Changes(r, d)
          /\ \A d \in Slots : Shown(d)' = IF d = c THEN Null ELSE Shown(d)
      BY <3>1, DropsRow DEF Drop
    <3>3. PICK q : q = runs[r].row[c].image
      OBVIOUS
    <3>4. Pic(q, c) /\ disk' = Without(q)
      BY <2>4, <3>1, <3>3
    <3>5. q \in Requests => ~Waits(q)'
      <4>1. SUFFICES ASSUME q \in Requests, Waits(q)' PROVE FALSE
        OBVIOUS
      <4>2. Past(q)
        <5>1. q # Null /\ (c \in DOMAIN scene.cocktails => scene.cocktails[c].image # q)
          BY <4>1, ScenesAssumption, NullAssumption DEF PicInv, Requests
        <5>2. QED
          BY <3>4, <5>1 DEF Pic
      <4>3. Past(q)' /\ Ask(q)' = Ask(q)
        BY <1>0, <1>1, <2>1, <4>1, <4>2, PicStays, SameAsks
      <4>4. QED
        BY <4>1, <4>3 DEF Past, Waits
    <3>6. ASSUME NEW d \in Slots \ putBack', Shown(d)' = q, q # Null
          PROVE  FALSE
      <4>1. d # c /\ Shown(d) = q
        BY <3>2, <3>6
      <4>2. Pic(q, d)
        BY <4>1 DEF PicInv, Pics
      <4>3. QED
        BY <3>4, <3>6, <4>1, <4>2, OnePlace
    <3>7. Unlinks(q)
      BY <3>4, <3>5, <3>6 DEF Unlinks
    <3>8. QED
      BY <1>0, <2>1, <2>3, <3>2, <3>7, PlainStep
  <2>7. QED
    BY <2>5, <2>6
<1>4. CASE EraseData(r)
  <2>1. Moves(r) /\ runs'[r].pc \in {"erase-user", "done"} /\ UNCHANGED <<cocktails, putBack, disk>>
    BY <1>0, <1>4, ErasureDoes DEF EraseData, Keep, pictures
  <2>2. Reads(r)'
    BY <1>0, <2>1 DEF Reads
  <2>3. QED
    BY <1>0, <2>1, <2>2, LeavesTables, PlainStep
<1>5. CASE EraseUser(r)
  <2>1. Moves(r) /\ runs'[r].pc \in {"erase-user", "done"} /\ UNCHANGED <<putBack, disk>>
    BY <1>0, <1>5, ErasureDoes DEF EraseUser, pictures
  <2>2. Reads(r)'
    BY <1>0, <2>1 DEF Reads
  <2>3. cocktails' = [c \in Slots |-> IF cocktails[c] # Null /\ cocktails[c].owner = Ask(r).user
                                      THEN [cocktails[c] EXCEPT !.owner = Null] ELSE cocktails[c]]
    BY <1>5 DEF EraseUser
  <2>4. ASSUME NEW c \in Slots
        PROVE  Changes(r, c) /\ (cocktails'[c] # Null => HasImage(cocktails'[c]))
    <3>1. cocktails[c] # Null => HasImage(cocktails[c])
      BY DEF PicInv, Rows
    <3>2. PICK row : row = [cocktails[c] EXCEPT !.owner = Null]
      OBVIOUS
    <3>3. cocktails[c] # Null => HasImage(row) /\ row.image = cocktails[c].image
      BY <3>1, <3>2 DEF HasImage
    <3>4. cocktails'[c] = cocktails[c] \/ (cocktails[c] # Null /\ cocktails'[c] = row)
      BY <2>3, <3>2
    <3>5. Shown(c)' = Shown(c) \/ Shown(c)' = Null
      BY <3>3, <3>4 DEF Shown
    <3>6. QED
      BY <2>1, <3>1, <3>3, <3>4, <3>5 DEF Changes
  <2>5. Rows'
    BY <2>3, <2>4 DEF Rows, HasImage
  <2>6. QED
    BY <1>0, <2>1, <2>2, <2>4, <2>5, PlainStep
<1>6. QED
  BY <1>2, <1>3, <1>4, <1>5

LEMMA MigrationSteps ==
  ASSUME PicInv, NEW r \in Requests,
         MigrateRead(r) \/ MigrateSave(r) \/ MoveRead(r) \/ MoveFind(r) \/ MoveStore(r) \/ MoveRemove(r)
  PROVE  TableStep(r)
<1>1. /\ RunShape /\ UNCHANGED <<scene, photo, sweep, disk, cocktails, putBack>>
  BY DEF PicInv, MigrateRead, MigrateSave, MoveRead, MoveFind, MoveStore, MoveRemove, Keep, tables, pictures
<1>2. /\ Moves(r) /\ Ask(r).kind \in {"create", "update", "prepare"} /\ runs'[r].c = runs[r].c
      /\ runs[r].pc \in {"favorite", "repoint", "rating", "move-find", "move-store", "move-remove"}
      /\ runs'[r].pc \in {"favorite", "repoint", "done", "rating", "move-find", "move-store", "move-remove"}
      /\ Ask(r).kind # "prepare" => runs'[r].pc \in {"repoint", "done"}
  BY <1>1, MigrationDoes
<1>3. Ask(r)' = Ask(r)
  BY <1>1, SameAsks
<1>4. Past(r) => Past(r)'
  BY <1>1, <1>2, <1>3 DEF Past
<1>5. Waits(r)' => Waits(r)
  BY <1>1, <1>2, <1>3 DEF Waits
<1>6. PhotoFits(r)' /\ Reads(r)'
  BY <1>2, <1>3 DEF PhotoFits, Reads
<1>7. QED
  BY <1>1, <1>2, <1>4, <1>5, <1>6, CalmStep

LEMMA AsideSteps ==
  ASSUME PicInv, NEW r \in Requests, Aside(r) \/ SaveCocktail(r)
  PROVE  TableStep(r)
<1>1. CASE Aside(r)
  <2>1. RunShape /\ UNCHANGED <<scene, photo, sweep, disk, cocktails, putBack>>
    BY <1>1 DEF PicInv, Aside, FavoriteCheck, FavoriteInsert, UnfavoriteRead, UnfavoriteDrop, ListRead, ListSave,
                SaveRead, LookUp, MakeName, SaveMark, Discard, Keep, tables, pictures
  <2>2. QED
    BY <1>1, <2>1, AsideDoes, LeavesTables, AsideStep
<1>2. CASE SaveCocktail(r)
  <2>1. RunShape /\ UNCHANGED <<scene, photo, sweep, disk, putBack>>
    BY <1>2 DEF PicInv, SaveCocktail, Keep, pictures
  <2>2. /\ Moves(r) /\ Ask(r).kind = "save"
        /\ \/ UNCHANGED cocktails
           \/ \E c \in Slots : /\ cocktails[c] = Null
                               /\ cocktails' = [cocktails EXCEPT ![c] = Row(Ask(r).user, FALSE, Null, "own")]
    BY <1>2, <2>1, SaveCocktailDoes
  <2>3. ASSUME NEW c \in Slots, cocktails[c] = Null,
               cocktails' = [cocktails EXCEPT ![c] = Row(Ask(r).user, FALSE, Null, "own")]
        PROVE  Rows' /\ \A d \in Slots : Changes(r, d)
    <3>1. PICK row : row = Row(Ask(r).user, FALSE, Null, "own")
      OBVIOUS
    <3>2. HasImage(row) /\ row.image = Null
      BY <3>1 DEF Row, HasImage
    <3>3. row.image = Shown(c) /\ Tracked(c, row.image, FALSE)
      BY <2>1, <2>3, <3>2 DEF Shown, Tracked
    <3>4. QED
      BY <2>3, <3>1, <3>2, <3>3, WritesRow
  <2>4. Rows' /\ \A d \in Slots : Changes(r, d)
    BY <2>1, <2>2, <2>3, LeavesTables
  <2>5. QED
    BY <2>1, <2>2, <2>4, AsideStep DEF AsideKinds
<1>3. QED
  BY <1>1, <1>2

\* Steps that no request takes: downloads, writing to the disk, the nightly job,
\* and an hour that passes.
LEMMA JobStep ==
  ASSUME PicInv, UNCHANGED <<scene, runs, cocktails, putBack, photo>>,
         DiskFits', JobFits', Absent', PicturesShown', \A r \in Requests : Waiting(r)'
  PROVE  PicInv'
<1>1. Requests' = Requests /\ \A s : Ask(s)' = Ask(s)
  BY SameAsks
<1>2. \A p, c : Pic(p, c)' <=> Pic(p, c)
  BY <1>1 DEF Pic, Past
<1>3. RunShape' /\ Rows' /\ photo' = [r \in Requests' |-> photo'[r]]
  BY <1>1 DEF PicInv, RunShape, Rows
<1>4. Pics'
  <2>1. \A c \in Slots : Shown(c)' = Shown(c)
    BY DEF Shown
  <2>2. ASSUME NEW c \in Slots
        PROVE  Pic(Shown(c), c)'
    <3>1. PICK p : p = Shown(c)
      OBVIOUS
    <3>2. Pic(p, c)'
      BY <1>2, <3>1 DEF PicInv, Pics
    <3>3. QED
      BY <2>1, <3>1, <3>2 DEF Pic
  <2>3. QED
    BY <2>2 DEF Pics
<1>5. ASSUME NEW r \in Requests
      PROVE  Reads(r)' /\ PhotoFits(r)'
  <2>1. Reads(r) /\ PhotoFits(r)
    BY DEF PicInv
  <2>2. PhotoFits(r)'
    BY <1>1, <2>1 DEF PhotoFits
  <2>3. Reads(r)'
    BY <1>1, <1>2, <2>1 DEF Reads
  <2>4. QED
    BY <2>2, <2>3
<1>6. QED
  BY <1>1, <1>3, <1>4, <1>5 DEF PicInv

(* What a file looks like once the hour has passed over it. *)
LEMMA SetField ==
  ASSUME NEW f, f = [pic |-> f.pic, part |-> f.part, old |-> f.old], NEW v
  PROVE  [f EXCEPT !.old = v] = [pic |-> f.pic, part |-> f.part, old |-> v]
<1>1. PICK g : g = [f EXCEPT !.old = v]
  OBVIOUS
<1>2. g.pic = f.pic /\ g.part = f.part /\ g.old = v /\ g = [i \in {"pic", "part", "old"} |-> g[i]]
  BY <1>1
<1>3. g = [pic |-> g.pic, part |-> g.part, old |-> g.old]
  BY <1>2
<1>4. QED
  BY <1>1, <1>2, <1>3

LEMMA SetOld ==
  ASSUME NEW f, f = [pic |-> f.pic, part |-> f.part, old |-> f.old]
  PROVE  [f EXCEPT !.old = TRUE] = [pic |-> f.pic, part |-> f.part, old |-> TRUE]
  BY SetField, Zenon

LEMMA SweepSteps ==
  ASSUME PicInv, Sweeping, UNCHANGED <<scene, runs, cocktails, putBack>>
  PROVE  PicInv'
<1>1. Requests' = Requests /\ \A s : Ask(s)' = Ask(s)
  BY SameAsks
<1>2. \A c \in Slots : Shown(c)' = Shown(c)
  BY DEF Shown
<1>3. photo' = photo
  BY DEF Sweeping, SweepList, SweepRead, SweepFile, HourPasses
<1>4. \A p \in Requests : Waits(p)' <=> Waits(p)
  BY <1>1, <1>3 DEF Waits
<1>5. ASSUME NEW state, NEW list, disk' = disk, sweep' = [sweep EXCEPT !.pc = state, !.found = list]
      PROVE  PicInv'
  <2>1. sweep' = [pc |-> state, found |-> list, took |-> sweep.took]
    BY <1>5 DEF PicInv, JobFits
  <2>2. JobFits' /\ DiskFits' /\ Absent'
    BY <1>1, <1>3, <1>5, <2>1 DEF PicInv, DiskFits, JobFits, Absent
  <2>3. \A p : Accounted(p)' <=> Accounted(p)
    BY <1>5, <2>1 DEF Accounted, HasPart
  <2>4. PicturesShown'
    BY <1>1, <1>2, <2>3 DEF PicInv, PicturesShown
  <2>5. \A r \in Requests : Waiting(r)'
    BY <1>3, <1>4, <1>5 DEF PicInv, Waiting, Young, HasPart
  <2>6. QED
    BY <1>3, <2>2, <2>4, <2>5, JobStep
<1>6. CASE SweepList
  BY <1>5, <1>6 DEF SweepList
<1>7. CASE SweepRead
  BY <1>5, <1>7 DEF SweepRead
<1>8. CASE SweepFile
  <2>1. PICK f, gone :
          /\ f \in sweep.found
          /\ gone = {g \in disk : g.pic = f.pic /\ g.part = f.part /\ Removable(g)}
          /\ disk' = disk \ gone
          /\ sweep' = [sweep EXCEPT !.found = @ \ {f}, !.took = @ \cup gone]
    BY <1>8 DEF SweepFile
  <2>2. sweep'.took = sweep.took \cup gone /\ JobFits'
    BY <2>1 DEF PicInv, JobFits
  <2>3. /\ disk' \subseteq disk
        /\ \A g \in disk : g \in disk' \/ (g.old /\ g \in sweep'.took)
    BY <2>1, <2>2 DEF Removable
  <2>4. ASSUME NEW p, Young(p)
        PROVE  \A g \in disk : g.pic = p => g \in disk'
    BY <2>3, <2>4 DEF Young
  <2>5. DiskFits' /\ Absent'
    BY <1>1, <1>3, <2>3 DEF PicInv, DiskFits, Absent
  <2>6. ASSUME NEW p, Accounted(p)
        PROVE  Accounted(p)'
    <3>1. SUFFICES ASSUME NEW part \in Parts, ~HasPart(p, part)'
                   PROVE  [pic |-> p, part |-> part, old |-> TRUE] \in sweep'.took
      BY DEF Accounted
    <3>2. CASE HasPart(p, part)
      <4>1. PICK g \in disk : g.pic = p /\ g.part = part
        BY <3>2 DEF HasPart
      <4>2. g.old /\ g \in sweep'.took
        BY <2>3, <3>1, <4>1 DEF HasPart
      <4>3. g = [pic |-> p, part |-> part, old |-> TRUE]
        BY <4>1, <4>2 DEF PicInv, DiskFits
      <4>4. QED
        BY <4>2, <4>3
    <3>3. CASE ~HasPart(p, part)
      BY <2>2, <2>6, <3>3 DEF Accounted
    <3>4. QED
      BY <3>2, <3>3
  <2>7. PicturesShown'
    BY <1>1, <1>2, <2>6 DEF PicInv, PicturesShown
  <2>8. ASSUME NEW p \in Requests, Waits(p)'
        PROVE  Young(p)' /\ (photo'[p] \in {"thumb", "saved"} => HasPart(p, "full")')
                         /\ (photo'[p] = "saved" => HasPart(p, "thumb")')
    <3>1. Young(p) /\ Waiting(p) /\ Waits(p)
      BY <1>4, <2>8 DEF PicInv, Waiting
    <3>2. \A g \in disk : g.pic = p => g \in disk'
      BY <2>4, <3>1
    <3>3. QED
      BY <1>3, <2>3, <3>1, <3>2 DEF Waiting, Young, HasPart
  <2>9. QED
    BY <1>3, <2>2, <2>5, <2>7, <2>8, JobStep DEF Waiting
<1>9. CASE HourPasses(Quiet)
  <2>1. /\ Quiet /\ sweep.pc = "idle" /\ sweep' = sweep /\ disk' = {[f EXCEPT !.old = TRUE] : f \in disk}
    BY <1>9 DEF HourPasses
  <2>2. ASSUME NEW f \in disk
        PROVE  [f EXCEPT !.old = TRUE] = [pic |-> f.pic, part |-> f.part, old |-> TRUE]
    BY SetOld, Zenon DEF PicInv, DiskFits
  <2>3. /\ \A g \in disk' : \E f \in disk : g = [f EXCEPT !.old = TRUE]
        /\ \A f \in disk : [f EXCEPT !.old = TRUE] \in disk'
    BY <2>1, Zenon
  <2>4. \A g \in disk' : \E f \in disk : g.pic = f.pic /\ g = [pic |-> g.pic, part |-> g.part, old |-> g.old]
    <3>1. TAKE g \in disk'
    <3>2. PICK f \in disk : g = [f EXCEPT !.old = TRUE]
      BY <2>3, <3>1
    <3>3. g = [pic |-> f.pic, part |-> f.part, old |-> TRUE]
      BY <2>2, <3>2, Zenon
    <3>4. QED
      BY <3>3
  <2>5. DiskFits' /\ JobFits' /\ Absent'
    BY <1>1, <1>3, <2>1, <2>4 DEF PicInv, DiskFits, JobFits, Absent
  <2>6. \A f \in disk : \E g \in disk' : g.pic = f.pic /\ g.part = f.part
    <3>1. TAKE f \in disk
    <3>2. PICK g : g = [f EXCEPT !.old = TRUE]
      OBVIOUS
    <3>3. g \in disk'
      BY <2>3, <3>2, Zenon
    <3>4. g = [pic |-> f.pic, part |-> f.part, old |-> TRUE]
      BY <2>2, <3>2, Zenon
    <3>5. QED
      BY <3>3, <3>4
  <2>7. \A p : Accounted(p) => Accounted(p)'
    BY <2>1, <2>6 DEF Accounted, HasPart
  <2>8. PicturesShown'
    BY <1>1, <1>2, <2>7 DEF PicInv, PicturesShown
  <2>9. ASSUME NEW p \in Requests
        PROVE  ~Waits(p)
    BY <2>1 DEF Quiet, Running, Fetching, Waits, Ends
  <2>10. QED
    BY <1>3, <1>4, <2>5, <2>8, <2>9, JobStep DEF Waiting
<1>10. QED
  BY <1>6, <1>7, <1>8, <1>9 DEF Sweeping

LEMMA StillShows ==
  ASSUME PicInv, UNCHANGED <<scene, runs, cocktails, putBack, pictures>>
  PROVE  PicInv'
<1>1. Requests' = Requests /\ (\A s : Ask(s)' = Ask(s)) /\ UNCHANGED <<disk, photo, sweep>>
  BY SameAsks DEF pictures
<1>2. \A c \in Slots : Shown(c)' = Shown(c)
  BY DEF Shown
<1>3. DiskFits' /\ JobFits' /\ Absent' /\ PicturesShown'
  BY <1>1, <1>2 DEF PicInv, DiskFits, JobFits, Absent, PicturesShown, Accounted, HasPart
<1>4. \A r \in Requests : Waiting(r)'
  BY <1>1 DEF PicInv, Waiting, Young, HasPart, Waits
<1>5. QED
  BY <1>1, <1>3, <1>4, JobStep

\* A file is written, or not, for a picture that is on its way.
LEMMA WriteSteps ==
  ASSUME PicInv, NEW r \in Requests, Storing(r), UNCHANGED <<scene, tables, runs, given, putBack>>
  PROVE  PicInv'
<1>1. /\ Requests' = Requests /\ \A s : Ask(s)' = Ask(s)
      /\ runs' = runs /\ cocktails' = cocktails /\ putBack' = putBack
  BY SameAsks DEF tables
<1>2. PICK part, next, state :
         /\ <<part, next>> \in {<<"full", "thumb">>, <<"thumb", "saved">>} /\ photo[r] = part
         /\ photo' = [photo EXCEPT ![r] = state] /\ sweep' = sweep
         /\ \/ state = next /\ disk' = disk \cup {[pic |-> r, part |-> part, old |-> FALSE]}
            \/ state = "broken" /\ disk' = disk
  BY DEF Storing, WriteFull, WriteThumb, Write
<1>3. /\ photo = [p \in Requests |-> photo[p]] /\ photo' = [p \in Requests |-> photo'[p]]
      /\ photo'[r] = state /\ \A p \in Requests \ {r} : photo'[p] = photo[p]
  BY <1>2 DEF PicInv
<1>4. photo[r] \in {"full", "thumb"} /\ photo'[r] \in {"thumb", "saved", "broken"}
  BY <1>2, <1>3
<1>5. \A p \in Requests : (Past(p)' <=> Past(p)) /\ (Waits(p)' => Waits(p))
  BY <1>1, <1>3, <1>4 DEF Past, Waits
<1>6. \A p, c : Pic(p, c)' <=> Pic(p, c)
  BY <1>1, <1>5 DEF Pic
<1>7. \A c \in Slots : Shown(c)' = Shown(c)
  BY <1>1 DEF Shown
<1>8. /\ \A f \in disk : f \in disk'
      /\ \A f \in disk' : f \in disk \/ (f.pic = r /\ f.old = FALSE /\ f = [pic |-> f.pic, part |-> f.part, old |-> f.old])
      /\ photo'[r] # "broken" => \E f \in disk' : f.pic = r /\ f.part = part
  <2>1. PICK new : new = [pic |-> r, part |-> part, old |-> FALSE]
    OBVIOUS
  <2>2. new.pic = r /\ new.part = part /\ new.old = FALSE /\ new = [pic |-> new.pic, part |-> new.part, old |-> new.old]
    BY <2>1
  <2>3. \/ state = next /\ disk' = disk \cup {new}
        \/ state = "broken" /\ disk' = disk
    BY <1>2, <2>1
  <2>4. \A f \in disk' : f \in disk \/ f = new
    BY <2>3
  <2>5. photo'[r] # "broken" => new \in disk'
    BY <1>3, <2>3
  <2>6. QED
    BY <2>2, <2>3, <2>4, <2>5
<1>9. DiskFits' /\ JobFits' /\ Absent'
  BY <1>1, <1>2, <1>3, <1>4, <1>8 DEF PicInv, DiskFits, JobFits, Absent
<1>10. \A p : Young(p) => Young(p)'
  BY <1>8 DEF Young
<1>11. PicturesShown'
  <2>1. \A p : Accounted(p) => Accounted(p)'
    BY <1>2, <1>8 DEF Accounted, HasPart
  <2>2. QED
    BY <1>1, <1>7, <2>1 DEF PicInv, PicturesShown
<1>12. ASSUME NEW p \in Requests
       PROVE  Waiting(p)'
  <2>1. SUFFICES ASSUME Waits(p)'
                 PROVE  /\ Young(p)' /\ (photo'[p] \in {"thumb", "saved"} => HasPart(p, "full")')
                        /\ (photo'[p] = "saved" => HasPart(p, "thumb")')
    BY DEF Waiting
  <2>2. Waits(p) /\ Waiting(p)
    BY <1>5, <2>1 DEF PicInv
  <2>3. \A k : HasPart(p, k) => HasPart(p, k)'
    BY <1>8 DEF HasPart
  <2>4. CASE p # r
    BY <1>3, <1>10, <2>2, <2>3, <2>4 DEF Waiting
  <2>5. CASE p = r
    <3>1. photo'[r] # "broken" => HasPart(r, part)'
      BY <1>8 DEF HasPart
    <3>2. /\ photo'[r] = "thumb" => part = "full"
          /\ photo'[r] = "saved" => part = "thumb" /\ photo[r] = "thumb"
      BY <1>2, <1>3
    <3>3. photo[r] = "thumb" => HasPart(r, "full")
      BY <2>2, <2>5 DEF Waiting
    <3>4. photo'[r] \in {"thumb", "saved"} => HasPart(r, "full")'
      <4>1. CASE photo'[r] = "thumb"
        BY <3>1, <3>2, <4>1 DEF HasPart
      <4>2. CASE photo'[r] = "saved"
        BY <1>8, <3>2, <3>3, <4>2 DEF HasPart
      <4>3. QED
        BY <4>1, <4>2
    <3>5. photo'[r] = "saved" => HasPart(r, "thumb")'
      BY <3>1, <3>2 DEF HasPart
    <3>6. Young(r)'
      BY <1>10, <2>2, <2>5 DEF Waiting
    <3>7. QED
      BY <2>5, <3>4, <3>5, <3>6 DEF HasPart, Young
  <2>6. QED
    BY <2>4, <2>5
<1>13. RunShape' /\ Rows'
  BY <1>1 DEF PicInv, RunShape, Rows
<1>14. Pics'
  <2>1. ASSUME NEW c \in Slots
        PROVE  Pic(Shown(c), c)'
    <3>1. PICK p : p = Shown(c)
      OBVIOUS
    <3>2. Pic(p, c)'
      BY <1>6, <3>1 DEF PicInv, Pics
    <3>3. QED
      BY <1>7, <3>1, <3>2 DEF Pic
  <2>2. QED
    BY <2>1 DEF Pics
<1>15. ASSUME NEW s \in Requests
       PROVE  Reads(s)' /\ PhotoFits(s)'
  <2>1. Reads(s) /\ PhotoFits(s)
    BY DEF PicInv
  <2>2. Reads(s)'
    BY <1>1, <1>6, <2>1 DEF Reads
  <2>3. PhotoFits(s)'
    BY <1>1, <1>3, <1>4, <2>1 DEF PhotoFits
  <2>4. QED
    BY <2>2, <2>3
<1>16. QED
  BY <1>1, <1>3, <1>9, <1>11, <1>12, <1>13, <1>14, <1>15 DEF PicInv

\* The picture of an import has come, and is put on its cocktail if that is there.
LEMMA IngestSteps ==
  ASSUME PicInv, NEW r \in Requests, IngestImage(r)
  PROVE  PicInv'
<1>1. /\ Requests' = Requests /\ \A s : Ask(s)' = Ask(s)
      /\ runs' = runs /\ disk' = disk /\ sweep' = sweep /\ scene' = scene
      /\ Ask(r).kind = "prepare" /\ photo[r] = "saved" /\ photo' = [photo EXCEPT ![r] = "stored"]
  BY SameAsks DEF IngestImage
<1>2. /\ photo' = [p \in Requests |-> photo'[p]]
      /\ photo'[r] = "stored" /\ \A p \in Requests \ {r} : photo'[p] = photo[p]
  BY <1>1 DEF PicInv
<1>3. PICK d : d = runs[r].c
  OBVIOUS
<1>4. /\ cocktails' = IF cocktails[d] = Null THEN cocktails ELSE [cocktails EXCEPT ![d].image = r]
      /\ putBack' = putBack \ {d}
  BY <1>3 DEF IngestImage
<1>5. /\ Rows' /\ \A c \in Slots : /\ c # d => Shown(c)' = Shown(c) /\ (c \in putBack' <=> c \in putBack)
                                   /\ c = d => Shown(c)' \in {Null, r}
  <2>1. cocktails = [c \in Slots |-> cocktails[c]] /\ \A c \in Slots : cocktails[c] # Null => HasImage(cocktails[c])
    BY DEF PicInv, Rows
  <2>2. CASE cocktails[d] = Null
    BY <1>4, <2>1, <2>2 DEF Rows, Shown, HasImage
  <2>3. CASE cocktails[d] # Null
    <3>1. PICK row : row = [cocktails[d] EXCEPT !.image = r]
      OBVIOUS
    <3>2. cocktails' = [cocktails EXCEPT ![d] = row]
      BY <1>4, <2>3, <3>1
    <3>3. d \in Slots => HasImage(row) /\ row.image = r
      BY <2>1, <2>3, <3>1 DEF HasImage
    <3>4. Rows'
      BY <2>1, <3>2, <3>3 DEF Rows, HasImage
    <3>5. \A c \in Slots : cocktails'[c] = IF c = d THEN row ELSE cocktails[c]
      BY <2>1, <3>2
    <3>6. QED
      BY <1>4, <3>3, <3>4, <3>5 DEF Shown
  <2>4. QED
    BY <2>2, <2>3
<1>6. /\ \A p \in Requests : Past(p) => Past(p)'
      /\ \A p \in Requests : Waits(p)' => Waits(p) /\ p # r
      /\ Past(r)' /\ Waits(r)
  BY <1>1, <1>2 DEF Past, Waits
<1>7. \A p, c : Pic(p, c) => Pic(p, c)'
  BY <1>1, <1>6 DEF Pic
<1>8. Pic(r, d)'
  BY <1>1, <1>3, <1>6 DEF Pic
<1>9. Waiting(r)
  BY DEF PicInv
<1>10. Accounted(r)
  BY <1>1, <1>6, <1>9 DEF Waiting, Accounted, Parts
<1>11. DiskFits' /\ JobFits' /\ Absent'
  BY <1>1, <1>2 DEF PicInv, DiskFits, JobFits, Absent
<1>12. PicturesShown'
  <2>1. \A p : Accounted(p)' <=> Accounted(p)
    BY <1>1 DEF Accounted, HasPart
  <2>2. ASSUME NEW c \in Slots \ putBack'
        PROVE  \/ Shown(c)' = Null \/ Accounted(Shown(c)')
               \/ \E s \in Requests : Ask(s).kind = "resolve" /\ runs[s].c = c /\ runs[s].pc = "failed"
    BY <1>5, <1>10, <2>2 DEF PicInv, PicturesShown
  <2>3. QED
    BY <1>1, <2>1, <2>2 DEF PicturesShown, Accounted, HasPart
<1>13. ASSUME NEW p \in Requests
       PROVE  Waiting(p)'
  <2>1. Waiting(p)
    BY DEF PicInv
  <2>2. QED
    BY <1>1, <1>2, <1>6, <2>1 DEF Waiting, Young, HasPart
<1>14. Pics'
  <2>1. ASSUME NEW c \in Slots
        PROVE  Pic(Shown(c), c)'
    <3>1. PICK p : p = Shown(c)'
      OBVIOUS
    <3>2. Pic(p, c)'
      <4>1. CASE c = d
        <5>1. p = Null \/ p = r
          BY <1>5, <3>1, <4>1
        <5>2. CASE p = Null
          BY <5>2 DEF Pic
        <5>3. CASE p = r
          BY <1>8, <4>1, <5>3
        <5>4. QED
          BY <5>1, <5>2, <5>3
      <4>2. CASE c # d
        BY <1>5, <1>7, <3>1, <4>2 DEF PicInv, Pics
      <4>3. QED
        BY <4>1, <4>2
    <3>3. QED
      BY <3>1, <3>2 DEF Pic
  <2>2. QED
    BY <2>1 DEF Pics
<1>15. ASSUME NEW s \in Requests
       PROVE  Reads(s)' /\ PhotoFits(s)'
  <2>1. Reads(s) /\ PhotoFits(s)
    BY DEF PicInv
  <2>2. Reads(s)'
    BY <1>1, <1>7, <2>1 DEF Reads
  <2>3. PhotoFits(s)'
    BY <1>1, <1>2, <2>1 DEF PhotoFits
  <2>4. QED
    BY <2>2, <2>3
<1>16. RunShape'
  BY <1>1 DEF PicInv, RunShape
<1>17. QED
  BY <1>1, <1>2, <1>5, <1>11, <1>12, <1>13, <1>14, <1>15, <1>16 DEF PicInv

\* The talk with the model leaves cocktails and pictures alone.
LEMMA TalkSteps ==
  ASSUME PicInv, OrderShape, NEW r \in Requests,
         \/ Generate(r) \/ ToolTurn(r) \/ ModelFails(r) \/ ModelAnswers(r)
         \/ Consume(r) \/ Compare(r) \/ Record(r)
  PROVE  TableStep(r)
<1>1. RunShape /\ UNCHANGED <<scene, photo, sweep, disk, cocktails, putBack>>
  BY DEF PicInv, Generate, ToolTurn, ModelFails, ModelAnswers, Consume, Compare, Record, Keep, tables, pictures
<1>2. Moves(r) /\ Ordering(r)
  BY <1>1, GenerateDoes, TurnDoes, AnswerDoes, ConsumeDoes, CompareDoes
<1>3. Ask(r).kind \in AsideKinds \cup {"generate", "regenerate"}
  BY <1>2 DEF Ordering
<1>4. QED
  BY <1>1, <1>2, <1>3, LeavesTables, AsideStep

LEMMA PicInit == BarInit => PicInv
<1>1. SUFFICES ASSUME BarInit PROVE PicInv
  OBVIOUS
<1>2. /\ scene \in Scenes /\ runs = [r \in Requests |-> Idle] /\ putBack = {}
      /\ cocktails = [c \in Slots |-> IF c \in DOMAIN scene.cocktails THEN scene.cocktails[c] ELSE Null]
      /\ disk = UNION {Files(Shown(c), TRUE) : c \in {k \in Slots : Shown(k) # Null}}
      /\ photo = [r \in Requests |-> "none"] /\ sweep = [pc |-> "idle", found |-> {}, took |-> {}]
  BY <1>1 DEF BarInit, Init
<1>3. Fits(Idle) /\ Idle.pc = "new"
  BY DEF Idle, Fits
<1>4. RunShape
  BY <1>2, <1>3 DEF RunShape, Place, Talking
<1>5. ASSUME NEW c \in Slots
      PROVE  /\ cocktails[c] # Null => HasImage(cocktails[c])
             /\ Shown(c) # Null => c \in DOMAIN scene.cocktails /\ Shown(c) = scene.cocktails[c].image
  <2>1. \A row \in Cocktail : HasImage(row)
    BY DEF Cocktail, HasImage
  <2>2. QED
    BY <1>2, <2>1, ScenesAssumption DEF Shown
<1>6. Rows /\ Pics
  BY <1>2, <1>5 DEF Rows, Pics, Pic
<1>7. \A f \in disk : \E c \in Slots : Shown(c) # Null /\ f \in Files(Shown(c), TRUE)
  BY <1>2
<1>8. \A p : \A f \in Files(p, TRUE) : f.pic = p /\ f = [pic |-> f.pic, part |-> f.part, old |-> f.old]
  BY DEF Files
<1>9. DiskFits /\ JobFits
  BY <1>2, <1>7, <1>8 DEF DiskFits, JobFits
<1>10. Absent
  <2>1. SUFFICES ASSUME NEW p \in Requests, NEW f \in disk, f.pic = p
                 PROVE  FALSE
    BY DEF Absent
  <2>2. PICK c \in Slots : Shown(c) # Null /\ f.pic = Shown(c)
    BY <1>7, <1>8
  <2>3. QED
    BY <1>2, <1>5, <2>1, <2>2, ScenesAssumption DEF Requests
<1>11. PicturesShown
  <2>1. ASSUME NEW c \in Slots, Shown(c) # Null, NEW part \in Parts
        PROVE  \E f \in disk : f.pic = Shown(c) /\ f.part = part
    <3>1. PICK f : f = [pic |-> Shown(c), part |-> part, old |-> TRUE]
      OBVIOUS
    <3>2. f \in Files(Shown(c), TRUE)
      BY <3>1, Zenon DEF Files
    <3>3. f \in disk
      BY <1>2, <2>1, <3>2
    <3>4. QED
      BY <3>1, <3>3
  <2>2. QED
    BY <2>1 DEF PicturesShown, Accounted, HasPart
<1>12. ASSUME NEW r \in Requests
       PROVE  Reads(r) /\ PhotoFits(r) /\ Waiting(r)
  <2>1. runs[r].pc = "new" /\ photo[r] = "none"
    BY <1>2, <1>3
  <2>2. QED
    BY <2>1 DEF Reads, Rating, PhotoFits, Waiting, Waits
<1>13. QED
  BY <1>2, <1>4, <1>6, <1>9, <1>10, <1>11, <1>12 DEF PicInv

LEMMA PicStep == PicInv /\ OrderShape /\ [BarNext]_barVars => PicInv'
<1>1. SUFFICES ASSUME PicInv, OrderShape, [BarNext]_barVars PROVE PicInv'
  OBVIOUS
<1>2. CASE UNCHANGED barVars
  BY <1>1, <1>2, StillShows DEF barVars, vars, tables
<1>3. CASE Midnight \/ CleanHistory \/ (Finished /\ UNCHANGED ai)
  <2>1. UNCHANGED <<scene, runs, cocktails, putBack, pictures>>
    BY <1>3 DEF Midnight, CleanHistory, Finished, vars, tables
  <2>2. QED
    BY <1>1, <2>1, StillShows
<1>4. CASE Sweeping /\ UNCHANGED <<scene, tables, runs, given, putBack, ai>>
  BY <1>1, <1>4, SweepSteps DEF tables
<1>5. ASSUME NEW r \in Requests, Bartending(r)
      PROVE  PicInv'
  <2>1. CASE Generate(r) \/ ToolTurn(r) \/ ModelFails(r) \/ ModelAnswers(r) \/ Consume(r) \/ Compare(r) \/ Record(r)
    BY <1>1, <2>1, TalkSteps, TableStepKeeps
  <2>2. CASE SaveRead(r) \/ LookUp(r) \/ MakeName(r) \/ SaveCocktail(r) \/ SaveMark(r) \/ Discard(r)
    <3>1. TableStep(r)
      BY <1>1, <2>2, AsideSteps DEF Aside
    <3>2. QED
      BY <1>1, <3>1, TableStepKeeps
  <2>3. QED
    BY <1>5, <2>1, <2>2 DEF Bartending
<1>6. ASSUME NEW r \in Requests, EraseHistory(r)
      PROVE  PicInv'
  BY <1>1, <1>6, EraseSteps, TableStepKeeps DEF EraseHistory
<1>7. ASSUME NEW r \in Requests, Recipes(r)
      PROVE  PicInv'
  <2>1. TableStep(r)
    BY <1>1, <1>7, RecipeStarts, InsertSteps, UpdateReads, UpdateSaves, RemoveSteps, ResolveSteps DEF Recipes
  <2>2. QED
    BY <1>1, <2>1, TableStepKeeps
<1>8. ASSUME NEW r \in Requests, Favorites(r) \/ Ratings(r) \/ EraseRead(r) \/ EraseOne(r)
      PROVE  PicInv'
  <2>1. TableStep(r)
    BY <1>1, <1>8, AsideSteps, MigrationSteps, RateSteps, EraseSteps DEF Favorites, Ratings, Aside
  <2>2. QED
    BY <1>1, <2>1, TableStepKeeps
<1>9. ASSUME NEW r \in Requests, Pictures(r)
      PROVE  PicInv'
  <2>1. CASE Upload(r) \/ UploadFails(r)
    BY <1>1, <2>1, RecipeStarts, TableStepKeeps
  <2>2. CASE IngestImage(r)
    BY <1>1, <2>2, IngestSteps
  <2>3. CASE Storing(r) /\ UNCHANGED <<scene, tables, runs, given, putBack>>
    BY <1>1, <2>3, WriteSteps
  <2>4. QED
    BY <1>9, <2>1, <2>2, <2>3 DEF Pictures
<1>10. QED
  BY <1>1, <1>2, <1>3, <1>4, <1>5, <1>6, <1>7, <1>8, <1>9 DEF BarNext

\* However uploads, edits, downloads, deletions, verdicts and the nightly job
\* overlap, a recipe shows only pictures of which both files are on the disk or
\* were an hour old when the job took them, but after a save that brought back an
\* older one and after a verdict that failed once it had unlinked the files.
THEOREM PicturesShownHolds == BarSpec => []PicturesShown
<1>1. PicInv => PicturesShown
  BY DEF PicInv
<1>2. QuotaInv => OrderShape
  BY DEF QuotaInv
<1>3. QED
  BY <1>1, <1>2, PicInit, PicStep, QuotaInit, QuotaStep, PTL DEF BarSpec

(***************************** the best answer *****************************)
\* A verdict on a recipe has a score that is a number.
Verdicts == {Verdict(recipe, n) : recipe \in Recipe, n \in Int}
Ingredient == [name : Words, amount : {"fit", "negative", "huge"}]

LEMMA CountsAreNumbers ==
  ASSUME NEW n \in Nat, NEW S, S \subseteq 1..n
  PROVE  Cardinality(S) \in Nat
<1>1. IsFiniteSet(1..n)
  BY FS_Interval
<1>2. QED
  BY <1>1, FS_Subset, FS_CardinalityType

LEMMA NamesOf ==
  ASSUME NEW recipe \in Recipe
  PROVE  /\ Names(recipe) \in Seq(Words) /\ recipe.ings \in Seq(Ingredient)
         /\ \E n \in Nat : DOMAIN recipe.ings = 1..n /\ DOMAIN Names(recipe) = 1..n
<1>1. recipe.ings \in Seq(Ingredient)
  BY DEF Recipe, Ingredient
<1>2. PICK ings \in Seq(Ingredient) : ings = recipe.ings
  BY <1>1
<1>3. \A i \in 1..Len(ings) : ings[i].name \in Words
  <2>1. \A i \in 1..Len(ings) : ings[i] \in Ingredient
    OBVIOUS
  <2>2. \A x \in Ingredient : x.name \in Words
    BY DEF Ingredient
  <2>3. QED
    BY <2>1, <2>2
<1>4. [i \in 1..Len(ings) |-> ings[i].name] \in Seq(Words)
  BY <1>3
<1>5. QED
  BY <1>1, <1>2, <1>4 DEF Names

LEMMA ScoreIsNumber ==
  ASSUME NEW v \in Verdicts
  PROVE  v.score \in Nat
<1>1. PICK recipe \in Recipe, n \in Int : v = Verdict(recipe, n)
  BY DEF Verdicts
<1>2. PICK k \in Nat : DOMAIN recipe.ings = 1..k /\ DOMAIN Names(recipe) = 1..k
  BY NamesOf
<1>3. /\ \A a : Amounts(recipe, a) \in Nat
      /\ \A S : Within(Names(recipe), S) \in Nat
  BY <1>2, CountsAreNumbers DEF Amounts, Within
<1>4. Dangers(recipe).count \in Nat
  BY <1>3 DEF Dangers
<1> DEFINE score == 1000 - (IF recipe.steps = 0 THEN 300 ELSE 0) - (IF recipe.steps < 2 THEN 50 ELSE 0)
                         - (IF Len(recipe.ings) < 2 THEN 50 ELSE 0)
                         - 50 * Amounts(recipe, "negative") - 10 * Amounts(recipe, "huge")
                         - 100 * Dangers(recipe).count - 50 * n
<1>5. score \in Int
  BY <1>3, <1>4
<1>7. v.score = Max({0, score})
  BY <1>1 DEF Verdict
<1> HIDE DEF score
<1>6. Max({0, score}) \in Nat
  <2>1. \E x \in {0, score} : \A y \in {0, score} : x >= y
    BY <1>5
  <2>2. Max({0, score}) = CHOOSE x \in {0, score} : \A y \in {0, score} : x >= y
    BY DEF Max
  <2>3. Max({0, score}) \in {0, score} /\ Max({0, score}) >= 0
    BY <2>1, <2>2
  <2>4. QED
    BY <1>5, <2>3
<1>8. QED
  BY <1>6, <1>7

LEMMA UnknownIsNumber ==
  ASSUME NEW asked \in Seq(Words)
  PROVE  Unknown(asked) \in Int
<1>1. Within(asked, Known \cup Remote) \in Nat
  BY CountsAreNumbers DEF Within
<1>2. QED
  BY <1>1 DEF Unknown

LEMMA BuiltIsRecipe ==
  ASSUME NEW reply \in Replies, NEW asked \in Seq(Words)
  PROVE  Built(reply, asked) \in Recipe
<1>1. reply \in Recipe
  BY RecipesAssumption
<1>2. PICK ings : ings = [i \in DOMAIN asked |-> [name |-> asked[i], amount |-> "fit"]]
  OBVIOUS
<1>3. ings \in Seq(Ingredient)
  <2>1. DOMAIN asked = 1..Len(asked) /\ Len(asked) \in Nat /\ \A i \in 1..Len(asked) : asked[i] \in Words
    OBVIOUS
  <2>2. \A w \in Words : [name |-> w, amount |-> "fit"] \in Ingredient
    BY DEF Ingredient
  <2>3. \A i \in 1..Len(asked) : [name |-> asked[i], amount |-> "fit"] \in Ingredient
    BY <2>1, <2>2
  <2>4. ings = [i \in 1..Len(asked) |-> [name |-> asked[i], amount |-> "fit"]]
    BY <1>2, <2>1
  <2>5. ings \in [1..Len(asked) -> Ingredient]
    BY <2>3, <2>4
  <2>6. QED
    BY <2>1, <2>5
<1>4. [reply EXCEPT !.ings = ings] \in Recipe
  BY <1>1, <1>3 DEF Recipe, Ingredient
<1>5. QED
  BY <1>1, <1>2, <1>4 DEF Built

\* A recipe of the history.
Kept(w) == "recipe" \in DOMAIN w /\ w.recipe \in Recipe
History == /\ records = [i \in RecordIds |-> records[i]]
           /\ \A i \in RecordIds : records[i] # Null => Kept(records[i])
SaveKeeps(q) == q.pc \in {"look-up", "names", "mark"} => Kept(q.row)

\* No attempt before the last was accepted, and the best so far is at hand.
Tried(q) ==
  /\ q.tries \in Seq(Verdicts) /\ q.round \in 1..MaxAttempts /\ Len(q.tries) <= q.round
  /\ \A i \in 1..Len(q.tries) : i < Len(q.tries) => ~Accepted(q.tries[i])
Trying(q) ==
  /\ Len(q.tries) < q.round /\ \A i \in 1..Len(q.tries) : ~Accepted(q.tries[i])
  /\ q.asked \in Seq(Words) /\ q.unknown \in Int
  /\ q.best = Null <=> Len(q.tries) = 0
Bettered(q) == /\ q.best \in Recipe /\ q.verdict.score \in Nat
               /\ \A i \in 1..Len(q.tries) : q.verdict.score >= q.tries[i].score
TalkInv(q) ==
  /\ q.pc \notin {"new", "refused"} => Tried(q)
  /\ q.pc = "attempt" => Trying(q)
  /\ q.pc = "attempt" /\ Len(q.tries) > 0 => Bettered(q)
  /\ q.pc \in {"consume", "compare"} => Bettered(q)
  /\ q.pc = "record" => q.best \in Recipe
BestInv ==
  /\ History
  /\ \A r \in Requests : /\ Ordering(r) => TalkInv(runs[r])
                         /\ Ask(r).kind = "save" => SaveKeeps(runs[r])

LEMMA AskedForNames ==
  ASSUME scene \in Scenes, History, NEW r \in Requests, Ordering(r), NEW asked \in AskedFor(r)
  PROVE  asked \in Seq(Words)
<1>1. CASE Ask(r).kind = "generate"
  <2>1. scene.asks[r].ings \in Seq(Words)
    BY <1>1, RecipesAssumption DEF Ask, Requests
  <2>2. QED
    BY <1>1, <2>1 DEF AskedFor, Ask
<1>2. CASE Ask(r).kind # "generate"
  <2>1. PICK i \in RecordIds : records[i] # Null /\ asked = Names(records[i].recipe)
    BY <1>2 DEF AskedFor
  <2>2. QED
    BY <2>1, NamesOf DEF History, Kept
<1>3. QED
  BY <1>1, <1>2

\* Another verdict.
LEMMA OneMore ==
  ASSUME NEW s \in Seq(Verdicts), NEW v \in Verdicts
  PROVE  /\ Append(s, v) \in Seq(Verdicts) /\ Len(Append(s, v)) = Len(s) + 1
         /\ Append(s, v)[Len(s) + 1] = v
         /\ \A i \in 1..Len(s) : Append(s, v)[i] = s[i]
OBVIOUS

LEMMA TalkGoesOn ==
  ASSUME QuotaInv, BestInv, NEW r \in Requests,
         Generate(r) \/ ToolTurn(r) \/ ModelFails(r) \/ ModelAnswers(r) \/ Consume(r) \/ Compare(r) \/ Record(r)
  PROVE  TalkInv(runs'[r])
<1>0. /\ RunShape /\ OrderShape /\ scene \in Scenes /\ History
      /\ MaxAttempts \in Nat \ {0}
  BY BarAssumption DEF QuotaInv, BestInv
<1>1. CASE Generate(r)
  <2>1. /\ Ordering(r)
        /\ runs'[r].pc = "refused" \/ \E asked \in AskedFor(r) : runs'[r] = Asking(Ask(r).user, asked)
    BY <1>0, <1>1, GenerateDoes
  <2>2. ASSUME NEW asked \in AskedFor(r), runs'[r] = Asking(Ask(r).user, asked)
        PROVE  TalkInv(runs'[r])
    <3>1. asked \in Seq(Words) /\ Unknown(asked) \in Int
      BY <1>0, <2>1, AskedForNames, UnknownIsNumber
    <3>2. PICK q : q = Asking(Ask(r).user, asked)
      OBVIOUS
    <3>3. /\ q.pc = "attempt" /\ q.tries = << >> /\ q.round = 1 /\ q.best = Null
          /\ q.asked = asked /\ q.unknown = Unknown(asked)
      BY <3>2 DEF Asking
    <3>4. << >> \in Seq(Verdicts) /\ Len(<< >>) = 0
      OBVIOUS
    <3>5. Tried(q) /\ Trying(q)
      BY <1>0, <3>1, <3>3, <3>4 DEF Tried, Trying
    <3>6. TalkInv(q)
      BY <3>3, <3>4, <3>5 DEF TalkInv
    <3>7. QED
      BY <2>2, <3>2, <3>6
  <2>3. QED
    BY <2>1, <2>2 DEF TalkInv
<1>2. CASE ToolTurn(r) \/ ModelFails(r)
  <2>1. /\ Ordering(r) /\ runs[r].pc = "attempt" /\ runs'[r].pc \in {"attempt", "failed"}
        /\ SameTalk(runs'[r], runs[r])
        /\ runs'[r].round = runs[r].round \/ (runs[r].round # MaxAttempts /\ runs'[r].round = runs[r].round + 1)
        /\ runs'[r].asked = runs[r].asked /\ runs'[r].unknown = runs[r].unknown
    BY <1>0, <1>2, TurnDoes DEF SameTalk, SameAsk
  <2>2. Tried(runs[r]) /\ Trying(runs[r]) /\ (Len(runs[r].tries) > 0 => Bettered(runs[r]))
    BY <2>1 DEF BestInv, TalkInv
  <2>3. Tried(runs'[r])
    BY <1>0, <2>1, <2>2 DEF Tried, SameTalk
  <2>4. runs'[r].pc = "attempt" => Trying(runs'[r])
    BY <1>0, <2>1, <2>2 DEF Trying, Tried, SameTalk
  <2>5. Len(runs'[r].tries) > 0 => Bettered(runs'[r])
    BY <2>1, <2>2 DEF Bettered, SameTalk
  <2>6. QED
    BY <2>1, <2>3, <2>4, <2>5 DEF TalkInv
<1>3. CASE ModelAnswers(r)
  <2>1. /\ Ordering(r) /\ runs[r].pc = "attempt"
        /\ \E reply \in Replies : \E recipe, verdict :
              /\ recipe = Built(reply, runs[r].asked) /\ verdict = Verdict(recipe, runs[r].unknown)
              /\ Chosen(runs[r], runs'[r], recipe, verdict)
              /\ runs'[r].tries = Append(runs[r].tries, verdict)
              /\ \/ /\ Accepted(verdict) \/ runs[r].round = MaxAttempts
                    /\ runs'[r].pc = "consume" /\ runs'[r].round = runs[r].round
                 \/ /\ ~Accepted(verdict) /\ runs[r].round # MaxAttempts
                    /\ runs'[r].pc = "attempt" /\ runs'[r].round = runs[r].round + 1
        /\ runs'[r].asked = runs[r].asked /\ runs'[r].unknown = runs[r].unknown
    BY <1>0, <1>3, AnswerDoes DEF SameAsk
  <2>2. PICK reply, recipe, verdict :
              /\ reply \in Replies /\ recipe = Built(reply, runs[r].asked) /\ verdict = Verdict(recipe, runs[r].unknown)
              /\ Chosen(runs[r], runs'[r], recipe, verdict)
              /\ runs'[r].tries = Append(runs[r].tries, verdict)
              /\ \/ /\ Accepted(verdict) \/ runs[r].round = MaxAttempts
                    /\ runs'[r].pc = "consume" /\ runs'[r].round = runs[r].round
                 \/ /\ ~Accepted(verdict) /\ runs[r].round # MaxAttempts
                    /\ runs'[r].pc = "attempt" /\ runs'[r].round = runs[r].round + 1
    BY <2>1
  <2>3. /\ Tried(runs[r]) /\ Trying(runs[r]) /\ (Len(runs[r].tries) > 0 => Bettered(runs[r]))
    BY <2>1 DEF BestInv, TalkInv
  <2>4. recipe \in Recipe /\ recipe # Null /\ verdict \in Verdicts /\ verdict.score \in Nat
    BY <2>2, <2>3, BuiltIsRecipe, ScoreIsNumber, RecipesAssumption DEF Trying, Verdicts
  <2> DEFINE old == runs[r].tries
             new == runs'[r].tries
  <2>5. /\ old \in Seq(Verdicts) /\ new \in Seq(Verdicts) /\ Len(new) = Len(old) + 1
        /\ new[Len(old) + 1] = verdict /\ \A i \in 1..Len(old) : new[i] = old[i]
    BY <2>2, <2>3, <2>4, OneMore DEF Tried
  <2>6. \A i \in 1..Len(new) : i \in 1..Len(old) \/ i = Len(old) + 1
    BY <2>5
  <2>7. /\ \A i \in 1..Len(old) : ~Accepted(old[i])
        /\ Len(old) < runs[r].round /\ runs[r].round \in 1..MaxAttempts
    BY <2>3 DEF Tried, Trying
  <2>8. Len(old) \in Nat
    BY <2>5
  <2> HIDE DEF old, new
  <2>9. Tried(runs'[r])
    <3>1. \A i \in 1..Len(new) : i < Len(new) => ~Accepted(new[i])
      BY <2>5, <2>7, <2>8
    <3>2. runs'[r].round \in 1..MaxAttempts /\ Len(new) <= runs'[r].round
      BY <1>0, <2>2, <2>5, <2>7, <2>8
    <3>3. QED
      BY <2>5, <3>1, <3>2 DEF Tried, new
  <2>10. Bettered(runs'[r])
    <3>1. CASE runs[r].best = Null \/ verdict.score > runs[r].verdict.score
      <4>1. runs'[r].best = recipe /\ runs'[r].verdict = verdict
        BY <2>2, <3>1 DEF Chosen
      <4>2. \A i \in 1..Len(old) : verdict.score >= old[i].score
        <5>1. ASSUME NEW i \in 1..Len(old)
              PROVE  verdict.score >= old[i].score
          <6>1. Len(old) > 0 /\ old[i] \in Verdicts
            BY <2>5, <2>8, <5>1
          <6>2. runs[r].best # Null /\ Bettered(runs[r])
            BY <2>3, <6>1 DEF Trying, old
          <6>3. old[i].score \in Nat /\ runs[r].verdict.score \in Nat /\ runs[r].verdict.score >= old[i].score
            BY <5>1, <6>1, <6>2, ScoreIsNumber DEF Bettered, old
          <6>4. QED
            BY <2>4, <3>1, <6>2, <6>3
        <5>2. QED
          BY <5>1
      <4>3. \A i \in 1..Len(new) : verdict.score >= new[i].score
        BY <2>4, <2>5, <2>6, <4>2
      <4>4. QED
        BY <2>4, <4>1, <4>3 DEF Bettered, new
    <3>2. CASE ~(runs[r].best = Null \/ verdict.score > runs[r].verdict.score)
      <4>1. runs'[r].best = runs[r].best /\ runs'[r].verdict = runs[r].verdict
        BY <2>2, <3>2 DEF Chosen
      <4>2. Bettered(runs[r])
        BY <2>3, <2>8, <3>2 DEF Trying, old
      <4>3. runs[r].verdict.score \in Nat /\ runs[r].verdict.score >= verdict.score
        BY <2>4, <3>2, <4>2 DEF Bettered
      <4>4. \A i \in 1..Len(new) : runs[r].verdict.score >= new[i].score
        BY <2>5, <2>6, <4>2, <4>3 DEF Bettered, old
      <4>5. QED
        BY <4>1, <4>2, <4>4 DEF Bettered, new
    <3>3. QED
      BY <3>1, <3>2
  <2>11. runs'[r].pc = "attempt" => Trying(runs'[r])
    <3>1. SUFFICES ASSUME runs'[r].pc = "attempt"
                   PROVE  Trying(runs'[r])
      OBVIOUS
    <3>2. ~Accepted(verdict) /\ runs'[r].round = runs[r].round + 1
      BY <2>2, <3>1
    <3>3. \A i \in 1..Len(new) : ~Accepted(new[i])
      BY <2>5, <2>6, <2>7, <3>2
    <3>4. Len(new) < runs'[r].round /\ Len(new) # 0
      BY <2>5, <2>7, <2>8, <3>2
    <3>5. runs'[r].asked \in Seq(Words) /\ runs'[r].unknown \in Int
      BY <2>1, <2>3, <3>1 DEF Trying
    <3>6. runs'[r].best # Null
      BY <2>10, RecipesAssumption DEF Bettered
    <3>7. QED
      BY <3>3, <3>4, <3>5, <3>6 DEF Trying, new
  <2>12. QED
    BY <2>2, <2>9, <2>10, <2>11 DEF TalkInv
<1>4. CASE Consume(r)
  <2>1. /\ Ordering(r) /\ runs[r].pc = "consume" /\ runs'[r].pc \in {"failed", "compare", "refused"}
        /\ runs'[r].best = runs[r].best /\ runs'[r].verdict = runs[r].verdict
        /\ runs'[r].tries = runs[r].tries /\ runs'[r].round = runs[r].round
    BY <1>0, <1>4, ConsumeDoes
  <2>2. Tried(runs[r]) /\ Bettered(runs[r])
    BY <2>1 DEF BestInv, TalkInv
  <2>3. Tried(runs'[r]) /\ Bettered(runs'[r])
    BY <2>1, <2>2 DEF Tried, Bettered
  <2>4. QED
    BY <2>1, <2>3 DEF TalkInv
<1>5. CASE Compare(r) \/ Record(r)
  <2>1. /\ Ordering(r) /\ runs[r].pc \in {"compare", "record"}
        /\ runs'[r].pc \in {"record", "failed", "done"}
        /\ runs'[r].tries = runs[r].tries /\ runs'[r].round = runs[r].round
        /\ runs'[r].pc = "record" => runs[r].pc = "compare" /\ runs'[r].best = runs[r].best
    BY <1>0, <1>5, CompareDoes
  <2>2. Tried(runs[r]) /\ (runs[r].pc = "compare" => Bettered(runs[r]))
    BY <2>1 DEF BestInv, TalkInv
  <2>3. Tried(runs'[r])
    BY <2>1, <2>2 DEF Tried
  <2>4. QED
    BY <2>1, <2>2, <2>3 DEF TalkInv, Bettered
<1>6. QED
  BY <1>1, <1>2, <1>3, <1>4, <1>5
\* A save keeps what it has read; nothing else enters the history but recipes.
LEMMA SavesKeep ==
  ASSUME RunShape, BestInv, NEW r \in Requests,
         SaveRead(r) \/ LookUp(r) \/ MakeName(r) \/ SaveCocktail(r) \/ SaveMark(r) \/ Discard(r)
  PROVE  /\ Ask(r).kind = "save" => SaveKeeps(runs'[r])
         /\ History'
<1>0. History /\ (Ask(r).kind = "save" => SaveKeeps(runs[r]))
  BY DEF BestInv
<1>1. CASE SaveRead(r)
  <2>1. records' = records /\ Ask(r).kind = "save"
    BY <1>1 DEF SaveRead, Keep, ai, Starts, At
  <2>2. CASE To(r, "refused")
    <3>1. runs'[r].pc = "refused"
      BY <2>1, <2>2, ToStep DEF Lands, Place, Talking
    <3>2. QED
      BY <1>0, <2>1, <3>1 DEF SaveKeeps, History
  <2>3. CASE ~To(r, "refused")
    <3>1. PICK i \in RecordIds : /\ records[i] # Null
                                 /\ Go(r, [Idle EXCEPT !.pc = "look-up", !.fav = i, !.row = records[i]])
      BY <1>1, <2>3 DEF SaveRead
    <3>2. PICK q : q = [Idle EXCEPT !.pc = "look-up", !.fav = i, !.row = records[i]]
      OBVIOUS
    <3>3. Fits(q) /\ q.pc = "look-up" /\ q.row = records[i]
      BY <3>2 DEF Fits, Idle
    <3>4. runs'[r] = q
      BY <2>1, <3>1, <3>2, <3>3, GoStep DEF Lands, Place, Talking
    <3>5. QED
      BY <1>0, <2>1, <3>1, <3>3, <3>4 DEF SaveKeeps, History
  <2>4. QED
    BY <2>2, <2>3
<1>2. CASE LookUp(r)
  <2>1. /\ records' = records /\ Ask(r).kind = "save" /\ runs[r].pc = "look-up"
        /\ \E rest : Go(r, [runs[r] EXCEPT !.pc = "names", !.rest = rest])
    BY <1>2 DEF LookUp, Keep, ai, At
  <2>2. PICK q, rest : q = [runs[r] EXCEPT !.pc = "names", !.rest = rest] /\ Go(r, q)
    BY <2>1
  <2>3. Fits(q) /\ q.pc = "names" /\ q.row = runs[r].row
    BY <2>2 DEF Fits, RunShape
  <2>4. runs'[r] = q
    BY <2>1, <2>2, <2>3, GoStep DEF Lands, Place, Talking
  <2>5. QED
    BY <1>0, <2>1, <2>3, <2>4 DEF SaveKeeps, History
<1>3. CASE MakeName(r)
  <2>1. /\ records' = records /\ Ask(r).kind = "save" /\ runs[r].pc = "names"
        /\ To(r, "failed") \/ \E rest : Go(r, [runs[r] EXCEPT !.rest = rest])
    BY <1>3 DEF MakeName, Keep, At
  <2>2. CASE To(r, "failed")
    <3>1. runs'[r].pc = "failed"
      BY <2>1, <2>2, ToStep DEF Lands, Place, Talking
    <3>2. QED
      BY <1>0, <2>1, <3>1 DEF SaveKeeps, History
  <2>3. CASE \E rest : Go(r, [runs[r] EXCEPT !.rest = rest])
    <3>1. PICK q, rest : q = [runs[r] EXCEPT !.rest = rest] /\ Go(r, q)
      BY <2>3
    <3>2. Fits(q) /\ q.pc = "names" /\ q.row = runs[r].row
      BY <2>1, <3>1 DEF Fits, RunShape
    <3>3. runs'[r] = q
      BY <2>1, <3>1, <3>2, GoStep DEF Lands, Place, Talking
    <3>4. QED
      BY <1>0, <2>1, <3>2, <3>3 DEF SaveKeeps, History
  <2>4. QED
    BY <2>1, <2>2, <2>3
<1>4. CASE SaveCocktail(r)
  <2>1. /\ records' = records /\ Ask(r).kind = "save" /\ runs[r].pc = "names"
        /\ To(r, "failed") \/ \E c : Go(r, [runs[r] EXCEPT !.pc = "mark", !.c = c])
    BY <1>4 DEF SaveCocktail, Keep, At
  <2>2. CASE To(r, "failed")
    <3>1. runs'[r].pc = "failed"
      BY <2>1, <2>2, ToStep DEF Lands, Place, Talking
    <3>2. QED
      BY <1>0, <2>1, <3>1 DEF SaveKeeps, History
  <2>3. CASE \E c : Go(r, [runs[r] EXCEPT !.pc = "mark", !.c = c])
    <3>1. PICK q, c : q = [runs[r] EXCEPT !.pc = "mark", !.c = c] /\ Go(r, q)
      BY <2>3
    <3>2. Fits(q) /\ q.pc = "mark" /\ q.row = runs[r].row
      BY <2>1, <3>1 DEF Fits, RunShape
    <3>3. runs'[r] = q
      BY <2>1, <3>1, <3>2, GoStep DEF Lands, Place, Talking
    <3>4. QED
      BY <1>0, <2>1, <3>2, <3>3 DEF SaveKeeps, History
  <2>4. QED
    BY <2>1, <2>2, <2>3
<1>5. CASE SaveMark(r)
  <2>1. Ask(r).kind = "save" /\ runs[r].pc = "mark" /\ To(r, "done")
    BY <1>5 DEF SaveMark, At
  <2>2. runs'[r].pc = "done"
    BY <2>1, ToStep DEF Lands, Place, Talking
  <2>3. Kept(runs[r].row)
    BY <1>0, <2>1 DEF SaveKeeps
  <2>4. PICK row : /\ \E by : row = [runs[r].row EXCEPT !.saved = runs[r].c, !.user = by]
                   /\ records' = [records EXCEPT ![runs[r].fav] = row]
    BY <1>5 DEF SaveMark
  <2>5. Kept(row)
    BY <2>3, <2>4 DEF Kept
  <2>6. QED
    BY <1>0, <2>2, <2>4, <2>5 DEF SaveKeeps, History
<1>6. CASE Discard(r)
  <2>1. /\ Ask(r).kind = "discard"
        /\ records' = records \/ \E i \in RecordIds : records' = [records EXCEPT ![i] = Null]
    BY <1>6 DEF Discard, Starts, At
  <2>2. QED
    BY <1>0, <2>1 DEF History
<1>7. QED
  BY <1>1, <1>2, <1>3, <1>4, <1>5, <1>6

\* A finished generation is a recipe in the history.
LEMMA TalkRecords ==
  ASSUME QuotaInv, BestInv, NEW r \in Requests,
         Generate(r) \/ ToolTurn(r) \/ ModelFails(r) \/ ModelAnswers(r) \/ Consume(r) \/ Compare(r) \/ Record(r)
  PROVE  History'
<1>0. History
  BY DEF BestInv
<1>1. CASE Record(r)
  <2>1. Ordering(r) /\ runs[r].pc = "record"
    BY <1>1 DEF Record, QuotaInv, RunShape, Place, Talking, Ordering
  <2>2. runs[r].best \in Recipe
    BY <2>1 DEF BestInv, TalkInv
  <2>3. records' = records \/ \E i \in RecordIds : \E row :
          /\ records' = [records EXCEPT ![i] = row]
          /\ row = [user |-> Ask(r).user, recipe |-> runs[r].best, score |-> runs[r].verdict.score,
                    valid |-> runs[r].verdict.valid, saved |-> Null]
    BY <1>1 DEF Record
  <2>4. CASE records' # records
    <3>1. PICK i, row :
            /\ i \in RecordIds /\ records' = [records EXCEPT ![i] = row]
            /\ row = [user |-> Ask(r).user, recipe |-> runs[r].best, score |-> runs[r].verdict.score,
                      valid |-> runs[r].verdict.valid, saved |-> Null]
      BY <2>3, <2>4
    <3>2. "recipe" \in DOMAIN row /\ row.recipe = runs[r].best
      BY <3>1
    <3>3. Kept(row)
      BY <2>2, <3>2 DEF Kept
    <3>4. QED
      BY <1>0, <3>1, <3>3 DEF History
  <2>5. QED
    BY <1>0, <2>4 DEF History
<1>2. CASE ~Record(r)
  <2>1. records' = records
    BY <1>2 DEF Generate, ToolTurn, ModelFails, ModelAnswers, Consume, Compare, Keep, ai
  <2>2. QED
    BY <1>0, <2>1 DEF History
<1>3. QED
  BY <1>1, <1>2

\* One request moves.
LEMMA OneMoves ==
  ASSUME BestInv, History', UNCHANGED scene, NEW r \in Requests, Moves(r),
         Ordering(r) => TalkInv(runs'[r]), Ask(r).kind = "save" => SaveKeeps(runs'[r])
  PROVE  BestInv'
<1>1. Requests' = Requests /\ \A s \in Requests : Ask(s)' = Ask(s) /\ (Ordering(s)' <=> Ordering(s))
  BY DEF Requests, Ask, Ordering
<1>2. \A s \in Requests \ {r} : runs'[s] = runs[s]
  BY DEF Moves
<1>3. \A s \in Requests : (Ordering(s) => TalkInv(runs'[s])) /\ (Ask(s).kind = "save" => SaveKeeps(runs'[s]))
  BY <1>2 DEF BestInv
<1>4. ASSUME NEW s \in Requests
      PROVE  (Ordering(s)' => TalkInv(runs[s])') /\ (Ask(s)'.kind = "save" => SaveKeeps(runs[s])')
  <2>1. (Ordering(s) => TalkInv(runs'[s])) /\ (Ask(s).kind = "save" => SaveKeeps(runs'[s]))
    BY <1>3
  <2>2. TalkInv(runs[s])' <=> TalkInv(runs'[s])
    BY DEF TalkInv, Tried, Trying, Bettered
  <2>3. SaveKeeps(runs[s])' <=> SaveKeeps(runs'[s])
    BY DEF SaveKeeps
  <2>4. QED
    BY <1>1, <2>1, <2>2, <2>3
<1>5. QED
  BY <1>1, <1>4 DEF BestInv

LEMMA NobodyMoves ==
  ASSUME BestInv, History', UNCHANGED <<scene, runs>>
  PROVE  BestInv'
BY DEF BestInv, Requests, Ask, Ordering

LEMMA OthersDontSave ==
  ASSUME RunShape, NEW r \in Requests,
         Recipes(r) \/ Favorites(r) \/ Ratings(r) \/ EraseRead(r) \/ EraseOne(r) \/ Upload(r) \/ UploadFails(r)
  PROVE  Ask(r).kind # "save"
<1> USE DEF Starts, At
<1>1. Place(Ask(r).kind, runs[r].pc)
  BY DEF RunShape
<1>2. CASE Recipes(r) \/ Upload(r) \/ UploadFails(r)
  BY <1>1, <1>2 DEF Recipes, PrepareFind, CreateStart, Insert, UpdateRead, UpdateCount, UpdateSave, RemoveRead,
                    RemoveSave, ResolveRead, Resolve, Upload, UploadFails, Ready, Place
<1>3. CASE Favorites(r)
  BY <1>1, <1>3 DEF Favorites, FavoriteCheck, FavoriteInsert, UnfavoriteRead, UnfavoriteDrop, ListRead, ListSave,
                    MigrateRead, MigrateSave, Place
<1>4. CASE Ratings(r) \/ EraseRead(r) \/ EraseOne(r)
  BY <1>4 DEF Ratings, MoveRead, MoveFind, MoveStore, MoveRemove, RateTarget, RateFind, RateStore, RateAverage,
              RateSave, EraseRead, EraseOne
<1>5. QED
  BY <1>2, <1>3, <1>4

LEMMA BestInit == BarInit => BestInv
<1>1. SUFFICES ASSUME BarInit PROVE BestInv
  OBVIOUS
<1>2. /\ scene \in Scenes /\ runs = [r \in Requests |-> Idle]
      /\ records = [i \in RecordIds |-> IF i \in DOMAIN scene.records THEN scene.records[i] ELSE Null]
  BY <1>1 DEF BarInit, Init
<1>3. History
  BY <1>2, RecipesAssumption DEF History, Kept
<1>4. Idle.pc = "new"
  BY DEF Idle
<1>5. \A r \in Requests : runs[r].pc = "new"
  BY <1>2, <1>4
<1>6. \A r \in Requests : TalkInv(runs[r]) /\ SaveKeeps(runs[r])
  BY <1>5 DEF TalkInv, SaveKeeps
<1>7. QED
  BY <1>3, <1>6 DEF BestInv

LEMMA BestStep == QuotaInv /\ BestInv /\ [BarNext]_barVars => BestInv'
<1>1. SUFFICES ASSUME QuotaInv, BestInv, [BarNext]_barVars PROVE BestInv'
  OBVIOUS
<1>2. RunShape /\ OrderShape /\ History
  BY <1>1 DEF QuotaInv, BestInv
<1>3. CASE UNCHANGED barVars \/ Midnight \/ (Finished /\ UNCHANGED ai)
           \/ (Sweeping /\ UNCHANGED <<scene, tables, runs, given, putBack, ai>>)
  <2>1. UNCHANGED <<scene, runs, records>>
    BY <1>3 DEF Midnight, Finished, barVars, vars, ai
  <2>2. QED
    BY <1>1, <1>2, <2>1, NobodyMoves DEF History
<1>4. CASE CleanHistory
  <2>1. UNCHANGED <<scene, runs>> /\ records' = [i \in RecordIds |-> IF Old(i) THEN Null ELSE records[i]]
    BY <1>4 DEF CleanHistory, vars
  <2>2. History'
    BY <1>2, <2>1 DEF History
  <2>3. QED
    BY <1>1, <2>1, <2>2, NobodyMoves
<1>5. ASSUME NEW r \in Requests, Bartending(r)
      PROVE  BestInv'
  <2>1. CASE Generate(r) \/ ToolTurn(r) \/ ModelFails(r) \/ ModelAnswers(r) \/ Consume(r) \/ Compare(r) \/ Record(r)
    <3>1. scene' = scene /\ Moves(r)
      BY <1>1, <2>1, TalkKeepsShape
    <3>2. TalkInv(runs'[r]) /\ History'
      BY <1>1, <2>1, TalkGoesOn, TalkRecords
    <3>3. Ordering(r)
      BY <1>2, <2>1, GenerateDoes, TurnDoes, AnswerDoes, ConsumeDoes, CompareDoes
    <3>4. QED
      BY <1>1, <3>1, <3>2, <3>3, OneMoves DEF Ordering
  <2>2. CASE SaveRead(r) \/ LookUp(r) \/ MakeName(r) \/ SaveCocktail(r) \/ SaveMark(r) \/ Discard(r)
    <3>1. scene' = scene /\ Moves(r) /\ ~Ordering(r)
      BY <1>2, <2>2, SavesQuiet DEF Quiets
    <3>2. QED
      BY <1>1, <1>2, <2>2, <3>1, SavesKeep, OneMoves
  <2>3. QED
    BY <1>5, <2>1, <2>2 DEF Bartending
<1>6. ASSUME NEW r \in Requests, EraseHistory(r)
      PROVE  BestInv'
  <2>1. /\ Moves(r) /\ Ask(r).kind = "erase" /\ scene' = scene
        /\ records' = Disowned(Ask(r).user)
    BY <1>2, <1>6, ErasureDoes DEF EraseHistory, EraseData, EraseUser, Keep
  <2>2. ASSUME NEW w, Kept(w)
        PROVE  Kept([w EXCEPT !.user = Null])
    BY <2>2 DEF Kept
  <2>3. History'
    BY <1>2, <2>1, <2>2 DEF History, Disowned
  <2>4. QED
    BY <1>1, <2>1, <2>3, OneMoves DEF Ordering
<1>7. ASSUME NEW r \in Requests, Recipes(r) \/ Favorites(r) \/ Ratings(r) \/ EraseRead(r) \/ EraseOne(r) \/ Pictures(r),
             UNCHANGED ai
      PROVE  BestInv'
  <2>1. History'
    BY <1>2, <1>7 DEF ai, History
  <2>2. CASE Recipes(r) \/ Favorites(r) \/ Ratings(r) \/ EraseRead(r) \/ EraseOne(r) \/ Upload(r) \/ UploadFails(r)
    <3>1. Quiets(r)
      BY <1>2, <2>2, RecipesQuiet, OthersQuiet
    <3>2. Ask(r).kind # "save"
      BY <1>2, <2>2, OthersDontSave
    <3>3. QED
      BY <1>1, <2>1, <3>1, <3>2, OneMoves DEF Quiets
  <2>3. CASE Pictures(r) /\ ~(Upload(r) \/ UploadFails(r))
    <3>1. UNCHANGED <<scene, runs>>
      BY <2>3 DEF Pictures, IngestImage, tables
    <3>2. QED
      BY <1>1, <2>1, <3>1, NobodyMoves
  <2>4. QED
    BY <1>7, <2>2, <2>3
<1>8. QED
  BY <1>1, <1>3, <1>4, <1>5, <1>6, <1>7 DEF BarNext

\* However attempts fail, are rejected or run out of turns, what a user pays for
\* is the best of what the model brought, there are at most MaxAttempts attempts,
\* and none after an acceptable one (generateRecipe).
THEOREM BestAnswerHolds == BarSpec => []BestAnswer
<1>1. QuotaInv /\ BestInv => BestAnswer
  <2>1. SUFFICES ASSUME QuotaInv, BestInv, NEW r \in Orders PROVE
           LET tries == runs[r].tries IN
           /\ Len(tries) <= runs[r].round /\ runs[r].round <= MaxAttempts
           /\ \A i \in DOMAIN tries :
                /\ i < Len(tries) => ~Accepted(tries[i])
                /\ runs[r].pc = "compare" => runs[r].verdict.score >= tries[i].score
    BY DEF BestAnswer
  <2>2. r \in Requests /\ Ordering(r) /\ runs[r].pc \notin {"new", "refused"}
    BY <2>1 DEF Orders, Ordering
  <2>3. Tried(runs[r]) /\ (runs[r].pc = "compare" => Bettered(runs[r]))
    BY <2>1, <2>2 DEF BestInv, TalkInv
  <2>4. DOMAIN runs[r].tries = 1..Len(runs[r].tries)
    BY <2>3 DEF Tried
  <2>5. runs[r].round <= MaxAttempts
    BY <2>3, BarAssumption DEF Tried
  <2>6. QED
    BY <2>3, <2>4, <2>5 DEF Tried, Bettered
<1>2. QED
  BY <1>1, QuotaInit, QuotaStep, BestInit, BestStep, PTL DEF BarSpec

(******************************* the favorites *****************************)
\* A request that may save the row it has read of a cocktail.
Keeping == {"count", "save"} \cup Rating
Holds(r, c) == runs[r].pc \in Keeping /\ runs[r].c = c
Belongs(c, u, t) == cocktails[c] # Null /\ cocktails[c].owner = u /\ cocktails[c].parent = t
Importing == {"favorite", "repoint"}
\* What the records of requests have where they work on rows.
Copies(r) ==
  /\ runs[r].pc \in {"count", "save"} => runs[r].c \in Slots
  /\ runs[r].pc \in Rating => runs[r].c \in Things
  /\ \A c \in Slots : Holds(r, c) => runs[r].row \in Cocktail
  /\ runs[r].pc \in {"count", "insert"} => Ask(r).on \in Things \cup {Null}
  /\ Ask(r).kind = "erase" => /\ runs[r].rest \subseteq Slots
                              /\ \A c \in runs[r].rest : runs[r].row[c] \in Cocktail
  /\ runs[r].pc \in {"move-find", "move-store"} => runs[r].row \in 1..5
  /\ runs[r].pc \in {"drop", "repoint"} => runs[r].fav \in FavIds /\ Ask(r).on \in Things
  /\ runs[r].pc \in Importing => Ask(r).on \in Externals /\ runs[r].c \in Slots
  /\ runs[r].pc = "save-back" => /\ Ask(r).kind = "list" /\ runs[r].rest \subseteq FavIds
                                 /\ \A i \in runs[r].rest : runs[r].row[i] \in [user : {Ask(r).user}, on : Externals]
  /\ runs[r].pc \in {"insert-favorite", "rating"} => Ask(r).on \in Things
Scored == ratings \in [Users \X Things -> 1..5 \cup {Null}]
Tables == /\ cocktails \in [Slots -> Cocktail \cup {Null}]
          /\ favs \in [FavIds -> Favorite \cup {Null}]
          /\ Scored
\* Who has not left owns what the copies of its cocktails say, and nobody's
\* erasure but its own removes them.
Agrees(r, c) ==
  /\ Holds(r, c) /\ runs[r].row.owner # Null /\ ~Erased(runs[r].row.owner)
       => Belongs(c, runs[r].row.owner, runs[r].row.parent)
  /\ Holds(r, c) /\ cocktails[c] # Null /\ cocktails[c].owner # Null /\ ~Erased(cocktails[c].owner)
       => runs[r].row.owner = cocktails[c].owner
  /\ Ask(r).kind = "erase" /\ c \in runs[r].rest /\ cocktails[c] # Null /\ cocktails[c].owner # Null
       => Erased(cocktails[c].owner)
Agree == \A r \in Requests : \A c \in Slots : Agrees(r, c)
\* A user's own import or fork of a remote cocktail stands for it.
Kin(u, t, on) == on = t \/ (on \in Slots /\ Belongs(on, u, t))
Akin(u, p, q) == Erased(u) \/ p = q \/ \E t \in Externals : Kin(u, t, p) /\ Kin(u, t, q)
Moving == \A r \in Requests : runs[r].pc \in Importing /\ ~Erased(Ask(r).user) => Kin(Ask(r).user, Ask(r).on, runs[r].c)
\* What a request takes a favorite for that it is about to change.
Believes(r, i, on) ==
  \/ runs[r].pc \in {"drop", "repoint"} /\ runs[r].fav = i /\ on = Ask(r).on
  \/ runs[r].pc = "save-back" /\ i \in runs[r].rest /\ on = runs[r].row[i].on
\* It is the user's, and stands for the same as for everybody else who knows it.
BelieverRight(r, i, p) ==
  /\ favs[i] # Null => favs[i].user \in {Ask(r).user, Null} /\ Akin(Ask(r).user, p, favs[i].on)
  /\ \A s \in Requests : \A q \in Things : Believes(s, i, q) => Ask(s).user = Ask(r).user /\ Akin(Ask(r).user, p, q)
Beliefs == \A r \in Requests : \A i \in FavIds : \A p \in Things : Believes(r, i, p) => BelieverRight(r, i, p)
Gave(u, t) == \E r \in Requests :
  Ask(r).user = u /\ Ask(r).kind = "unfavorite" /\ runs[r].pc # "new" /\ Kin(u, t, Ask(r).on)
Witness(u, t, i) == favs[i] # Null /\ favs[i].user = u /\ Kin(u, t, favs[i].on)
Favorable(u, t) == Gave(u, t) \/ \E i \in FavIds : Witness(u, t, i)
StillThere == \A u \in users : \A t \in Favored(u) : Erased(u) \/ Favorable(u, t)
FavInv == Resolved \/ (Tables /\ (\A r \in Requests : Copies(r)) /\ Agree /\ Moving /\ Beliefs /\ StillThere)

(* What a step may do to a cocktail: nothing that its owner could notice who has
   not left, or it is made anew. *)
Steady(c) == \A u \in Users : ~Erased(u)' => \A t : Belongs(c, u, t)' <=> Belongs(c, u, t)
Unnamed(c) == cocktails[c] = Null /\ ~Named(c)
CocktailsStand == \A c \in Slots : Steady(c) \/ Unnamed(c)
\* What it may have read, and what it knows anew.
CopiesFit(r) ==
  /\ Copies(r)'
  /\ \A c \in Slots : Holds(r, c)' =>
       \/ Holds(r, c) /\ runs'[r].row.owner = runs[r].row.owner /\ runs'[r].row.parent = runs[r].row.parent
       \/ cocktails[c] # Null /\ runs'[r].row = cocktails[c] /\ cocktails' = cocktails
  /\ Ask(r).kind = "erase" => \A c \in runs'[r].rest :
       c \in runs[r].rest \/ (cocktails[c] # Null /\ cocktails[c].owner = Ask(r).user /\ cocktails' = cocktails)
  /\ runs'[r].pc \in Importing =>
       \/ runs[r].pc \in Importing /\ runs'[r].c = runs[r].c
       \/ Belongs(runs[r].c, Ask(r).user, Ask(r).on)'
  /\ \A i \in FavIds, p \in Things : Believes(r, i, p)' =>
       Believes(r, i, p) \/ (favs[i] # Null /\ favs[i].user = Ask(r).user /\ favs[i].on = p /\ favs' = favs)
\* What it may do to a favorite.
FavoriteStands(r, i) ==
  \/ favs'[i] = favs[i] \/ favs'[i] = Null \/ ~Held(i)
  \/ \E p \in Things : /\ Believes(r, i, p) /\ favs'[i].user \in {Ask(r).user, Null}
                       /\ Akin(Ask(r).user, p, favs[i].on)'
FavoriteStep(r) ==
  /\ Moves(r) /\ UNCHANGED scene /\ users' \subseteq users /\ Tables'
  /\ CocktailsStand /\ CopiesFit(r)
  /\ \A i \in FavIds : FavoriteStands(r, i)
  /\ \A u \in users', t \in Externals, i \in FavIds : ~Erased(u)' /\ Witness(u, t, i) => Favorable(u, t)'
  /\ Ask(r).kind = "favorite" /\ Ask(r).on \in Externals /\ runs'[r].pc = "done" => Favorable(Ask(r).user, Ask(r).on)'

LEMMA KinStays ==
  ASSUME CocktailsStand, NEW u \in Users, ~Erased(u)', NEW t, NEW on, Kin(u, t, on)
  PROVE  Kin(u, t, on)'
<1>1. CASE on = t
  BY <1>1 DEF Kin
<1>2. CASE on \in Slots /\ Belongs(on, u, t)
  <2>1. Steady(on)
    BY <1>2 DEF CocktailsStand, Unnamed, Belongs
  <2>2. Belongs(on, u, t)'
    BY <1>2, <2>1 DEF Steady
  <2>3. QED
    BY <1>2, <2>2 DEF Kin
<1>3. QED
  BY <1>1, <1>2 DEF Kin

LEMMA AkinStays ==
  ASSUME CocktailsStand, UNCHANGED scene, NEW r \in Requests, Moves(r), NEW u \in Users, NEW p, NEW q, Akin(u, p, q)
  PROVE  Akin(u, p, q)'
<1>1. CASE Erased(u)'
  BY <1>1 DEF Akin
<1>2. CASE p = q
  BY <1>2 DEF Akin
<1>3. CASE ~Erased(u)' /\ p # q
  <2>1. ~Erased(u)
    BY <1>3, ErasedStays
  <2>2. PICK t \in Externals : Kin(u, t, p) /\ Kin(u, t, q)
    BY <1>3, <2>1 DEF Akin
  <2>3. Kin(u, t, p)' /\ Kin(u, t, q)'
    BY <1>3, <2>2, KinStays
  <2>4. QED
    BY <2>2, <2>3 DEF Akin
<1>4. QED
  BY <1>1, <1>2, <1>3

\* A thing stands for one remote cocktail only, so this is an equivalence.
LEMMA OneKin ==
  ASSUME NEW u, NEW t \in Externals, NEW q \in Externals, NEW on, Kin(u, t, on), Kin(u, q, on)
  PROVE  t = q
<1>1. Externals \cap Slots = {}
  BY TypesAssumption DEF Slots
<1>2. QED
  BY <1>1 DEF Kin, Belongs

LEMMA AkinJoins ==
  ASSUME NEW u, NEW p, NEW q, NEW s, Akin(u, p, q), Akin(u, q, s)
  PROVE  Akin(u, p, s) /\ Akin(u, s, p)
<1>1. CASE Erased(u) \/ p = q \/ q = s
  BY <1>1 DEF Akin
<1>2. CASE ~Erased(u) /\ p # q /\ q # s
  <2>1. PICK t \in Externals : Kin(u, t, p) /\ Kin(u, t, q)
    BY <1>2 DEF Akin
  <2>2. PICK w \in Externals : Kin(u, w, q) /\ Kin(u, w, s)
    BY <1>2 DEF Akin
  <2>3. t = w
    BY <2>1, <2>2, OneKin
  <2>4. QED
    BY <2>1, <2>2, <2>3 DEF Akin
<1>3. QED
  BY <1>1, <1>2

LEMMA CopiesStay ==
  ASSUME UNCHANGED scene, NEW r \in Requests, Moves(r), NEW s \in Requests \ {r}
  PROVE  /\ Copies(s)' <=> Copies(s)
         /\ \A c : Holds(s, c)' <=> Holds(s, c)
         /\ \A i, p : Believes(s, i, p)' <=> Believes(s, i, p)
<1>1. runs'[s] = runs[s] /\ Ask(s)' = Ask(s)
  BY DEF Moves, Ask
<1>2. /\ \A c : Holds(s, c)' <=> Holds(s, c)
      /\ \A i, p : Believes(s, i, p)' <=> Believes(s, i, p)
  BY <1>1 DEF Holds, Believes
<1>3. Copies(s)' <=> Copies(s)
  BY <1>1, <1>2 DEF Copies
<1>4. QED
  BY <1>2, <1>3

LEMMA AgreeKept ==
  ASSUME scene \in Scenes, Tables, \A s \in Requests : Copies(s), Agree,
         UNCHANGED scene, NEW r \in Requests, Moves(r), Tables', CocktailsStand, CopiesFit(r)
  PROVE  Agree'
<1>1. Requests' = Requests /\ \A s : Ask(s)' = Ask(s)
  BY SameAsks
<1>2. SUFFICES ASSUME NEW s \in Requests, NEW c \in Slots
               PROVE  Agrees(s, c)'
  BY <1>1 DEF Agree
<1>3. Agrees(s, c)
  BY DEF Agree
<1>4. \A u : Erased(u) => Erased(u)'
  BY ErasedStays
<1>5. ASSUME Ask(s).kind = "erase", c \in runs'[s].rest, c \notin runs[s].rest
      PROVE  s = r /\ cocktails[c] # Null /\ cocktails[c].owner = Ask(s).user /\ cocktails' = cocktails
  BY <1>5 DEF Moves, CopiesFit
<1>6. s # r => (Holds(s, c)' <=> Holds(s, c)) /\ runs'[s] = runs[s]
  BY CopiesStay DEF Moves
<1>7. ASSUME Holds(s, c)'
      PROVE  \/ Holds(s, c) /\ runs'[s].row.owner = runs[s].row.owner /\ runs'[s].row.parent = runs[s].row.parent
             \/ cocktails[c] # Null /\ runs'[s].row = cocktails[c] /\ cocktails' = cocktails
  BY <1>6, <1>7 DEF CopiesFit
<1>8. ASSUME cocktails'[c] # Null, cocktails'[c].owner # Null
      PROVE  cocktails'[c].owner \in Users
  BY <1>8 DEF Tables, Cocktail
<1>9. CASE Unnamed(c)
  <2>1. ~Holds(s, c) /\ ~(Ask(s).kind = "erase" /\ c \in runs[s].rest) /\ cocktails[c] = Null
    BY <1>9 DEF Unnamed, Named, Holds
  <2>2. ~Holds(s, c)' /\ ~(Ask(s).kind = "erase" /\ c \in runs'[s].rest)
    BY <1>5, <1>7, <2>1
  <2>3. QED
    BY <1>1, <2>2 DEF Agrees
<1>10. CASE Steady(c)
  <2>1. ASSUME NEW u \in Users, Holds(s, c)', runs'[s].row.owner = u, ~Erased(u)'
        PROVE  \A t : t = runs'[s].row.parent => Belongs(c, u, t)'
    <3>1. CASE Holds(s, c) /\ runs'[s].row.owner = runs[s].row.owner /\ runs'[s].row.parent = runs[s].row.parent
      <4>1. PICK t : t = runs[s].row.parent
        OBVIOUS
      <4>2. ~Erased(u) /\ u # Null
        BY <1>4, <2>1, TypesAssumption
      <4>3. Belongs(c, u, t)
        BY <1>3, <2>1, <3>1, <4>1, <4>2 DEF Agrees
      <4>4. Belongs(c, u, t)'
        BY <1>10, <2>1, <4>3 DEF Steady
      <4>5. QED
        BY <3>1, <4>1, <4>4
    <3>2. CASE cocktails[c] # Null /\ runs'[s].row = cocktails[c] /\ cocktails' = cocktails
      BY <2>1, <3>2 DEF Belongs
    <3>3. QED
      BY <1>7, <2>1, <3>1, <3>2
  <2>2. ASSUME NEW u \in Users, cocktails'[c] # Null, cocktails'[c].owner = u, ~Erased(u)'
        PROVE  cocktails[c] # Null /\ cocktails[c].owner = u /\ ~Erased(u) /\ u # Null
    <3>1. PICK t : t = cocktails'[c].parent
      OBVIOUS
    <3>2. Belongs(c, u, t)'
      BY <2>2, <3>1 DEF Belongs
    <3>3. Belongs(c, u, t)
      BY <1>10, <2>2, <3>2 DEF Steady
    <3>4. QED
      BY <1>4, <2>2, <3>3, TypesAssumption DEF Belongs
  <2>3. ASSUME NEW u \in Users, Holds(s, c)', cocktails'[c] # Null, cocktails'[c].owner = u, ~Erased(u)'
        PROVE  runs'[s].row.owner = u
    <3>1. cocktails[c] # Null /\ cocktails[c].owner = u /\ ~Erased(u) /\ u # Null
      BY <2>2, <2>3
    <3>2. QED
      BY <1>3, <1>7, <2>3, <3>1 DEF Agrees
  <2>4. ASSUME NEW u \in Users, Ask(s).kind = "erase", c \in runs'[s].rest, cocktails'[c] # Null, cocktails'[c].owner = u
        PROVE  Erased(u)'
    <3>1. SUFFICES ASSUME ~Erased(u)' PROVE FALSE
      OBVIOUS
    <3>2. cocktails[c] # Null /\ cocktails[c].owner = u /\ ~Erased(u) /\ u # Null
      BY <2>2, <2>4, <3>1
    <3>3. s = r /\ Ask(s).user = u
      BY <1>3, <1>5, <2>4, <3>2 DEF Agrees
    <3>4. runs'[s].pc # "new"
      BY <3>3 DEF Moves, Lands
    <3>5. QED
      BY <1>1, <2>4, <3>1, <3>3, <3>4 DEF Erased
  <2>5. ASSUME Holds(s, c)', runs'[s].row.owner # Null
        PROVE  runs'[s].row.owner \in Users
    <3>1. runs'[s].row \in Cocktail
      BY <1>7, <2>5 DEF Copies, CopiesFit, Moves, Tables
    <3>2. QED
      BY <2>5, <3>1 DEF Cocktail
  <2>6. QED
    BY <1>1, <1>8, <2>1, <2>3, <2>4, <2>5 DEF Agrees
<1>11. QED
  BY <1>9, <1>10 DEF CocktailsStand

LEMMA MovingKept ==
  ASSUME scene \in Scenes, Moving, UNCHANGED scene, NEW r \in Requests, Moves(r), CocktailsStand, CopiesFit(r)
  PROVE  Moving'
<1>1. Requests' = Requests /\ \A s : Ask(s)' = Ask(s)
  BY SameAsks
<1>2. SUFFICES ASSUME NEW s \in Requests, NEW u, NEW t, NEW c, runs'[s].pc \in Importing, ~Erased(u)',
                      u = Ask(s).user, t = Ask(s).on, c = runs'[s].c
               PROVE  Kin(u, t, c)'
  BY <1>1 DEF Moving
<1>3. u \in Users
  BY <1>2, ScenesAssumption DEF Requests, Ask
<1>4. CASE runs[s].pc \in Importing /\ runs'[s].c = runs[s].c
  <2>1. ~Erased(u)
    BY <1>2, ErasedStays
  <2>2. Kin(u, t, c)
    BY <1>2, <1>4, <2>1 DEF Moving
  <2>3. QED
    BY <1>2, <1>3, <2>2, KinStays
<1>5. CASE s = r /\ Belongs(c, u, t)'
  <2>1. c \in Slots
    BY <1>1, <1>2, <1>5 DEF CopiesFit, Copies
  <2>2. QED
    BY <1>5, <2>1 DEF Kin
<1>6. QED
  BY <1>1, <1>2, <1>4, <1>5 DEF Moves, CopiesFit, Belongs

LEMMA AkinJoinsNext ==
  ASSUME NEW u, NEW p, NEW q, NEW s, Akin(u, p, q)', Akin(u, q, s)'
  PROVE  Akin(u, p, s)'
<1>1. CASE Erased(u)' \/ p = q \/ q = s
  BY <1>1 DEF Akin
<1>2. CASE ~Erased(u)' /\ p # q /\ q # s
  <2>1. PICK t \in Externals : Kin(u, t, p)' /\ Kin(u, t, q)'
    BY <1>2 DEF Akin
  <2>2. PICK w \in Externals : Kin(u, w, q)' /\ Kin(u, w, s)'
    BY <1>2 DEF Akin
  <2>3. Externals \cap Slots = {}
    BY TypesAssumption DEF Slots
  <2>4. t = w
    BY <2>1, <2>2, <2>3 DEF Kin, Belongs
  <2>5. QED
    BY <2>1, <2>2, <2>4 DEF Akin
<1>3. QED
  BY <1>1, <1>2

LEMMA BeliefsKept ==
  ASSUME scene \in Scenes, Tables, \A s \in Requests : Copies(s), Beliefs,
         NEW r \in Requests, FavoriteStep(r)
  PROVE  Beliefs'
<1>0. UNCHANGED scene /\ Moves(r) /\ CocktailsStand /\ CopiesFit(r)
  BY DEF FavoriteStep
<1>1. Requests' = Requests /\ \A s : Ask(s)' = Ask(s)
  BY <1>0, SameAsks
<1>2. \A s \in Requests : Ask(s).user \in Users /\ Ask(s).user # Null
  BY ScenesAssumption, TypesAssumption DEF Requests, Ask
<1>3. ASSUME NEW s \in Requests, NEW i \in FavIds, NEW p \in Things, Believes(s, i, p)'
      PROVE  \/ Believes(s, i, p)
             \/ s = r /\ favs[i] # Null /\ favs[i].user = Ask(r).user /\ favs[i].on = p /\ favs' = favs
  <2>1. CASE s = r
    BY <1>0, <1>3, <2>1 DEF CopiesFit
  <2>2. CASE s # r
    BY <1>0, <1>3, <2>2, CopiesStay
  <2>3. QED
    BY <2>1, <2>2
<1>4. SUFFICES ASSUME NEW s \in Requests, NEW i \in FavIds, NEW p \in Things, Believes(s, i, p)'
               PROVE  BelieverRight(s, i, p)'
  BY <1>1 DEF Beliefs
<1>5. PICK u \in Users : u = Ask(s).user /\ u # Null
  BY <1>2
<1>6. ASSUME NEW w \in Requests, NEW q \in Things, Believes(w, i, q)'
      PROVE  Ask(w).user = u /\ Akin(u, p, q)'
  <2>1. Akin(u, p, p) /\ Akin(u, p, p)'
    BY DEF Akin
  <2>2. Ask(w).user = u /\ Akin(u, p, q)
    <3>1. CASE Believes(s, i, p) /\ Believes(w, i, q)
      BY <1>5, <3>1 DEF Beliefs, BelieverRight
    <3>2. CASE Believes(s, i, p) /\ ~Believes(w, i, q)
      <4>1. w = r /\ favs[i] # Null /\ favs[i].user = Ask(w).user /\ favs[i].on = q
        BY <1>3, <1>6, <3>2
      <4>2. favs[i].user \in {u, Null} /\ Akin(u, p, favs[i].on)
        BY <1>5, <3>2, <4>1 DEF Beliefs, BelieverRight
      <4>3. QED
        BY <1>2, <4>1, <4>2
    <3>3. CASE ~Believes(s, i, p) /\ Believes(w, i, q)
      <4>1. favs[i] # Null /\ favs[i].user = u /\ favs[i].on = p
        BY <1>3, <1>4, <1>5, <3>3
      <4>2. favs[i].user \in {Ask(w).user, Null} /\ Akin(Ask(w).user, q, favs[i].on)
        BY <3>3, <4>1 DEF Beliefs, BelieverRight
      <4>3. Ask(w).user = u /\ Akin(u, q, p)
        BY <1>5, <4>1, <4>2
      <4>4. QED
        BY <2>1, <4>3, AkinJoins
    <3>4. CASE ~Believes(s, i, p) /\ ~Believes(w, i, q)
      <4>1. s = r /\ w = r /\ favs[i].on = p /\ favs[i].on = q
        BY <1>3, <1>4, <1>6, <3>4
      <4>2. QED
        BY <1>5, <2>1, <4>1
    <3>5. QED
      BY <3>1, <3>2, <3>3, <3>4
  <2>3. QED
    BY <1>0, <2>2, AkinStays
<1>7. ASSUME favs'[i] # Null
      PROVE  favs'[i].user \in {u, Null} /\ \A on : on = favs'[i].on => Akin(u, p, on)'
  <2>1. CASE favs'[i] = favs[i]
    <3>1. favs[i].user \in {u, Null} /\ Akin(u, p, favs[i].on)
      <4>1. CASE Believes(s, i, p)
        BY <1>5, <1>7, <2>1, <4>1 DEF Beliefs, BelieverRight
      <4>2. CASE ~Believes(s, i, p)
        BY <1>3, <1>4, <1>5, <4>2 DEF Akin
      <4>3. QED
        BY <4>1, <4>2
    <3>2. PICK on : on = favs[i].on
      OBVIOUS
    <3>3. Akin(u, p, on)'
      BY <1>0, <3>1, <3>2, AkinStays
    <3>4. QED
      BY <2>1, <3>1, <3>2, <3>3
  <2>2. CASE favs'[i] # favs[i]
    <3>1. Believes(s, i, p)
      BY <1>3, <1>4, <2>2
    <3>2. Held(i)
      BY <3>1 DEF Believes, Held, Copies
    <3>3. FavoriteStands(r, i)
      BY DEF FavoriteStep
    <3>4. PICK on : on = favs'[i].on
      OBVIOUS
    <3>5. PICK p0 \in Things : /\ Believes(r, i, p0) /\ favs'[i].user \in {Ask(r).user, Null}
                               /\ \A v : v = Ask(r).user => Akin(v, p0, on)'
      BY <1>1, <1>7, <2>2, <3>2, <3>3, <3>4 DEF FavoriteStands
    <3>6. Ask(r).user = u /\ Akin(u, p, p0)
      BY <1>5, <3>1, <3>5 DEF Beliefs, BelieverRight
    <3>7. Akin(u, p, p0)' /\ Akin(u, p0, on)'
      BY <1>0, <3>5, <3>6, AkinStays
    <3>8. QED
      BY <3>4, <3>5, <3>6, <3>7, AkinJoinsNext
  <2>3. QED
    BY <2>1, <2>2
<1>8. QED
  BY <1>1, <1>5, <1>6, <1>7 DEF BelieverRight

LEMMA StillThereKept ==
  ASSUME scene \in Scenes, users \subseteq Users, StillThere, NEW r \in Requests, FavoriteStep(r)
  PROVE  StillThere'
<1>0. UNCHANGED scene /\ Moves(r) /\ CocktailsStand /\ users' \subseteq users
  BY DEF FavoriteStep
<1>1. Requests' = Requests /\ \A s : Ask(s)' = Ask(s)
  BY <1>0, SameAsks
<1>2. SUFFICES ASSUME NEW u \in users', NEW t \in Favored(u)', ~Erased(u)'
               PROVE  Favorable(u, t)'
  BY DEF StillThere
<1>3. u \in users /\ u \in Users /\ ~Erased(u) /\ t \in Externals
  BY <1>0, <1>2, ErasedStays DEF Favored
<1>4. CASE t \in Favored(u)
  <2>1. CASE Gave(u, t)
    <3>1. PICK s \in Requests : Ask(s).user = u /\ Ask(s).kind = "unfavorite" /\ runs[s].pc # "new" /\ Kin(u, t, Ask(s).on)
      BY <2>1 DEF Gave
    <3>2. PICK on : on = Ask(s).on
      OBVIOUS
    <3>3. Kin(u, t, on)'
      BY <1>0, <1>2, <1>3, <3>1, <3>2, KinStays
    <3>4. runs'[s].pc # "new"
      BY <1>0, <3>1 DEF Moves, Lands
    <3>5. Gave(u, t)'
      BY <1>1, <3>1, <3>2, <3>3, <3>4 DEF Gave
    <3>6. QED
      BY <3>5 DEF Favorable
  <2>2. CASE ~Gave(u, t)
    <3>1. PICK i \in FavIds : Witness(u, t, i)
      BY <1>3, <1>4, <2>2 DEF StillThere, Favorable
    <3>2. QED
      BY <1>2, <1>3, <3>1 DEF FavoriteStep
  <2>3. QED
    BY <2>1, <2>2
<1>5. CASE t \notin Favored(u)
  <2>1. PICK s \in Requests : /\ Ask(s).kind = "favorite" /\ runs'[s].pc = "done" /\ runs[s].pc # "done"
                              /\ Ask(s).user = u /\ Ask(s).on = t
    BY <1>0, <1>1, <1>2, <1>3, <1>5 DEF Favored
  <2>2. s = r
    BY <1>0, <2>1 DEF Moves
  <2>3. Favorable(Ask(r).user, Ask(r).on)'
    BY <1>3, <2>1, <2>2 DEF FavoriteStep
  <2>4. QED
    BY <1>1, <2>1, <2>2, <2>3
<1>6. QED
  BY <1>4, <1>5

LEMMA FavoriteStepKeeps ==
  ASSUME QuotaInv, FavInv, NEW r \in Requests, ~Resolved => FavoriteStep(r), UNCHANGED scene
  PROVE  FavInv'
<1>1. Requests' = Requests /\ \A s : Ask(s)' = Ask(s)
  BY SameAsks
<1>2. Resolved' <=> Resolved
  BY <1>1 DEF Resolved
<1>3. CASE Resolved
  BY <1>2, <1>3 DEF FavInv
<1>4. CASE ~Resolved
  <2>1. /\ scene \in Scenes /\ users \subseteq Users /\ FavoriteStep(r) /\ Tables /\ (\A s \in Requests : Copies(s))
        /\ Agree /\ Moving /\ Beliefs /\ StillThere
    BY <1>4 DEF QuotaInv, Books, FavInv
  <2>2. Moves(r) /\ Tables' /\ CocktailsStand /\ CopiesFit(r)
    BY <2>1 DEF FavoriteStep
  <2>3. \A s \in Requests : Copies(s)'
    BY <2>1, <2>2, CopiesStay DEF CopiesFit
  <2>4. Agree' /\ Moving' /\ Beliefs' /\ StillThere'
    BY <2>1, <2>2, AgreeKept, MovingKept, BeliefsKept, StillThereKept
  <2>5. QED
    BY <1>1, <2>2, <2>3, <2>4 DEF FavInv
<1>5. QED
  BY <1>3, <1>4

\* A step that leaves the tables alone.
LEMMA TablesStand ==
  ASSUME scene \in Scenes, users \subseteq Users, Tables, UNCHANGED <<scene, users, cocktails, favs>>, Scored',
         NEW r \in Requests, Moves(r), CopiesFit(r),
         ~(Ask(r).kind = "favorite" /\ runs'[r].pc = "done")
  PROVE  FavoriteStep(r)
<1>1. \A c, u, t : Belongs(c, u, t)' <=> Belongs(c, u, t)
  BY DEF Belongs
<1>2. CocktailsStand
  BY <1>1 DEF CocktailsStand, Steady
<1>3. Tables'
  BY DEF Tables
<1>4. ASSUME NEW u, NEW t, NEW i, Witness(u, t, i)
      PROVE  Witness(u, t, i)'
  BY <1>1, <1>4 DEF Witness, Kin
<1>5. QED
  BY <1>2, <1>3, <1>4 DEF FavoriteStep, FavoriteStands, Favorable

\* One that leads where no row is worked on.
Working == Keeping \cup Importing \cup {"insert", "rating", "move-find", "move-store", "drop", "save-back", "insert-favorite"}
Idles(r) == /\ Ask(r).kind # "erase"
            /\ \/ runs'[r].pc \notin Working
               \/ runs'[r].pc = "insert" /\ Ask(r).on \in Things \cup {Null}
               \/ runs'[r].pc = "insert-favorite" /\ Ask(r).on \in Things
LEMMA IdlesFit ==
  ASSUME NEW r \in Requests, UNCHANGED scene, Idles(r)
  PROVE  CopiesFit(r)
BY SameAsks DEF CopiesFit, Copies, Holds, Believes, Idles, Working, Keeping, Rating, Importing

LEMMA IdleStep ==
  ASSUME scene \in Scenes, users \subseteq Users, Tables, UNCHANGED <<scene, users, cocktails, favs>>, Scored',
         NEW r \in Requests, Moves(r), Idles(r), ~(Ask(r).kind = "favorite" /\ runs'[r].pc = "done")
  PROVE  FavoriteStep(r)
BY IdlesFit, TablesStand

\* A row is read to be saved.
LEMMA ReadingStep ==
  ASSUME scene \in Scenes, users \subseteq Users, Tables, UNCHANGED <<scene, tables>>, NEW r \in Requests, Moves(r),
         Ask(r).kind \in {"update", "remove", "rate"}, runs'[r].pc \in {"count", "save", "rate-find"},
         runs'[r].pc = "count" => Ask(r).on \in Things,
         NEW c \in Slots, runs'[r].c = c, cocktails[c] # Null, runs'[r].row = cocktails[c]
  PROVE  FavoriteStep(r)
<1>1. Ask(r)' = Ask(r)
  BY SameAsks
<1>2. cocktails' = cocktails /\ cocktails[c] \in Cocktail /\ c \in Things
  BY DEF tables, Tables, Things
<1>3. Copies(r)'
  BY <1>1, <1>2 DEF Copies, Holds, Rating, Importing
<1>4. CopiesFit(r)
  BY <1>1, <1>2, <1>3 DEF CopiesFit, Holds, Believes, Importing
<1>5. QED
  BY <1>4, TablesStand DEF tables, Tables, Scored

\* It goes on with the row it has.
LEMMA HoldingStep ==
  ASSUME scene \in Scenes, users \subseteq Users, Tables, UNCHANGED <<scene, users, cocktails, favs>>, Scored',
         NEW r \in Requests, Moves(r), Copies(r), Ask(r).kind \in {"update", "rate"}, runs[r].pc \in Keeping, runs'[r].pc \in {"save"} \cup Rating,
         runs'[r].pc = "save" => runs[r].pc \in {"count", "save"},
         runs'[r].c = runs[r].c,
         runs[r].c \in Slots => /\ runs'[r].row \in Cocktail /\ runs'[r].row.owner = runs[r].row.owner
                                /\ runs'[r].row.parent = runs[r].row.parent
  PROVE  FavoriteStep(r)
<1>1. Ask(r)' = Ask(r)
  BY SameAsks
<1>2. runs[r].c \in Things /\ (runs'[r].pc = "save" => runs[r].c \in Slots)
  BY DEF Copies, Keeping, Things
<1>3. Copies(r)'
  BY <1>1, <1>2 DEF Copies, Holds, Rating, Importing
<1>4. CopiesFit(r)
  BY <1>1, <1>2, <1>3 DEF CopiesFit, Holds, Believes, Importing, Keeping, Rating
<1>5. QED
  BY <1>4, TablesStand

\* A row is written as somebody had it.
LEMMA RowStands ==
  ASSUME Tables, NEW c \in Slots, NEW row, cocktails' = [cocktails EXCEPT ![c] = row],
         \A u \in Users : ~Erased(u)' => \A t :
            (row # Null /\ row.owner = u /\ row.parent = t) <=> Belongs(c, u, t)
  PROVE  CocktailsStand
<1>1. cocktails'[c] = row /\ \A d \in Slots \ {c} : cocktails'[d] = cocktails[d]
  BY DEF Tables
<1>2. Steady(c)
  BY <1>1 DEF Steady, Belongs
<1>3. \A d \in Slots \ {c} : Steady(d)
  BY <1>1 DEF Steady, Belongs
<1>4. QED
  BY <1>2, <1>3 DEF CocktailsStand

\* What a slot's own copies say of those who have not left.
LEMMA CopyRight ==
  ASSUME Agree, UNCHANGED scene, NEW r \in Requests, Moves(r), NEW c \in Slots, Holds(r, c), NEW u \in Users, ~Erased(u)',
         NEW t
  PROVE  /\ runs[r].row.owner = u /\ runs[r].row.parent = t => Belongs(c, u, t)
         /\ Belongs(c, u, t) => runs[r].row.owner = u /\ runs[r].row.parent = t
<1>1. ~Erased(u) /\ u # Null /\ Agrees(r, c)
  BY ErasedStays, TypesAssumption DEF Agree
<1>2. QED
  BY <1>1 DEF Agrees, Belongs

\* Rows of cocktails change, favorites do not.
LEMMA CocktailsChange ==
  ASSUME scene \in Scenes, users \subseteq Users, Tables, UNCHANGED <<scene, users, favs, ratings>>, NEW r \in Requests,
         Moves(r), cocktails' \in [Slots -> Cocktail \cup {Null}], CocktailsStand, CopiesFit(r), Ask(r).kind # "favorite"
  PROVE  FavoriteStep(r)
<1>1. Tables'
  BY DEF Tables, Scored
<1>2. ASSUME NEW u \in users', NEW t \in Externals, NEW i \in FavIds, ~Erased(u)', Witness(u, t, i)
      PROVE  Witness(u, t, i)'
  <2>1. PICK on : on = favs[i].on
    OBVIOUS
  <2>2. Kin(u, t, on)'
    BY <1>2, <2>1, KinStays DEF Witness
  <2>3. QED
    BY <1>2, <2>1, <2>2 DEF Witness
<1>3. QED
  BY <1>1, <1>2 DEF FavoriteStep, FavoriteStands, Favorable

\* Where a step starts.
Well == /\ scene \in Scenes /\ users \subseteq Users /\ RunShape /\ OrderShape /\ Tables /\ (\A r \in Requests : Copies(r))
        /\ Agree /\ Moving /\ Beliefs /\ ~Resolved

LEMMA Asked ==
  ASSUME Well, NEW r \in Requests
  PROVE  /\ Ask(r).user \in Users /\ Ask(r).user # Null /\ Ask(r).public \in BOOLEAN /\ Ask(r).content \in Contents
         /\ r \in Nat /\ Copies(r)
         /\ Ask(r).kind = "create" => Ask(r).on \in Things \cup {Null}
         /\ Ask(r).kind = "unfavorite" => Ask(r).on \in Things
         /\ Ask(r).kind = "rate" => Ask(r).score \in 1..5
         /\ Ask(r).kind # "resolve"
BY ScenesAssumption, TypesAssumption DEF Well, Requests, Ask, Resolved, Contents

LEMMA Unwritten ==
  ASSUME Well, UNCHANGED <<scene, tables>>
  PROVE  /\ scene \in Scenes /\ users \subseteq Users /\ RunShape /\ Tables /\ Scored'
         /\ UNCHANGED <<scene, users, cocktails, favs>>
BY DEF Well, Tables, Scored, tables

LEMMA RecipesStart ==
  ASSUME Well, NEW r \in Requests,
         PrepareFind(r) \/ CreateStart(r) \/ UpdateRead(r) \/ UpdateCount(r) \/ RemoveRead(r)
         \/ Upload(r) \/ UploadFails(r)
  PROVE  FavoriteStep(r)
<1>0. /\ scene \in Scenes /\ users \subseteq Users /\ RunShape /\ Tables /\ Copies(r)
      /\ Ask(r).kind = "create" => Ask(r).on \in Things \cup {Null}
  BY Asked DEF Well
<1>1. UNCHANGED <<scene, tables>>
  BY DEF PrepareFind, CreateStart, UpdateRead, UpdateCount, RemoveRead, Upload, UploadFails, Keep, Beside
<1>2. ASSUME Moves(r), Idles(r), Ask(r).kind # "favorite"
      PROVE  FavoriteStep(r)
  BY <1>1, <1>2, IdleStep, Unwritten
<1>3. CASE PrepareFind(r)
  <2>1. /\ Moves(r) /\ Ask(r).kind = "prepare" /\ runs'[r].pc \in {"done", "refused", "insert"}
    BY <1>0, <1>3, PrepareFindDoes
  <2>2. runs'[r].pc = "insert" => Ask(r).on \in Externals
    <3>1. CASE \E c : Go(r, [Idle EXCEPT !.pc = "done", !.c = c])
      <4>1. PICK q, c : q = [Idle EXCEPT !.pc = "done", !.c = c] /\ Go(r, q)
        BY <3>1
      <4>2. q.pc = "done" /\ runs'[r] = q
        BY <1>0, <4>1 DEF Idle, Go, RunShape
      <4>3. QED
        BY <4>2
    <3>2. CASE \E pc \in {"refused"} \cup (IF Ask(r).on \in Externals THEN {"insert"} ELSE {}) : To(r, pc)
      <4>1. PICK pc \in {"refused"} \cup (IF Ask(r).on \in Externals THEN {"insert"} ELSE {}) : To(r, pc)
        BY <3>2
      <4>2. Lands(Ask(r).kind, pc)
        BY <2>1, <4>1 DEF Lands, Place, Talking
      <4>3. runs'[r].pc = pc
        BY <1>0, <4>1, <4>2, ToStep
      <4>4. QED
        BY <4>1, <4>3
    <3>3. QED
      BY <1>3, <3>1, <3>2 DEF PrepareFind
  <2>3. Idles(r)
    BY <2>1, <2>2 DEF Idles, Working, Keeping, Rating, Importing, Things
  <2>4. QED
    BY <1>2, <2>1, <2>3
<1>4. CASE CreateStart(r)
  <2>1. Moves(r) /\ Ask(r).kind = "create" /\ runs'[r].pc = "insert"
    BY <1>0, <1>4, CreateStartDoes
  <2>2. QED
    BY <1>0, <1>2, <2>1 DEF Idles
<1>5. CASE UpdateRead(r)
  <2>1. /\ Moves(r) /\ Ask(r).kind = "update"
        /\ \/ /\ Live(Ask(r).on)
              /\ runs'[r].pc = "count" /\ runs'[r].c = Ask(r).on /\ runs'[r].row = cocktails[Ask(r).on]
           \/ runs'[r].pc = "refused"
    BY <1>0, <1>5, UpdateReadDoes
  <2>2. CASE runs'[r].pc = "refused"
    BY <1>2, <2>1, <2>2 DEF Idles, Working, Keeping, Rating, Importing
  <2>3. CASE runs'[r].pc # "refused"
    <3>1. Ask(r).on \in Slots /\ Ask(r).on \in Things /\ cocktails[Ask(r).on] # Null
      BY <2>1, <2>3 DEF Live, Things
    <3>2. QED
      BY <1>0, <1>1, <2>1, <2>3, <3>1, ReadingStep
  <2>4. QED
    BY <2>2, <2>3
<1>6. CASE UpdateCount(r)
  <2>1. /\ Moves(r) /\ Ask(r).kind = "update" /\ runs[r].pc = "count" /\ runs'[r].pc \in {"insert", "save"}
        /\ runs'[r].c = runs[r].c /\ runs'[r].row = runs[r].row
    BY <1>0, <1>6, UpdateCountDoes
  <2>2. CASE runs'[r].pc = "insert"
    BY <1>0, <1>2, <2>1, <2>2 DEF Idles, Copies
  <2>3. CASE runs'[r].pc = "save"
    BY <1>0, <1>1, <2>1, <2>3, HoldingStep, Unwritten DEF Copies, Holds, Keeping
  <2>4. QED
    BY <2>1, <2>2, <2>3
<1>7. CASE RemoveRead(r)
  <2>1. /\ Moves(r) /\ Ask(r).kind = "remove"
        /\ \/ /\ Live(Ask(r).on)
              /\ runs'[r].pc = "save" /\ runs'[r].c = Ask(r).on /\ runs'[r].row = cocktails[Ask(r).on]
           \/ runs'[r].pc = "refused"
    BY <1>0, <1>7, RemoveReadDoes
  <2>2. CASE runs'[r].pc = "refused"
    BY <1>2, <2>1, <2>2 DEF Idles, Working, Keeping, Rating, Importing
  <2>3. CASE runs'[r].pc # "refused"
    <3>1. Ask(r).on \in Slots /\ cocktails[Ask(r).on] # Null
      BY <2>1, <2>3 DEF Live
    <3>2. QED
      BY <1>0, <1>1, <2>1, <2>3, <3>1, ReadingStep
  <2>4. QED
    BY <2>2, <2>3
<1>8. CASE Upload(r)
  BY <1>0, <1>2, <1>8, UploadDoes DEF Idles, Working, Keeping, Rating, Importing
<1>9. CASE UploadFails(r)
  BY <1>0, <1>2, <1>9, UploadFailsDoes DEF Idles, Working, Keeping, Rating, Importing
<1>10. QED
  BY <1>3, <1>4, <1>5, <1>6, <1>7, <1>8, <1>9

\* The rows that are made.
LEMMA RowIsCocktail ==
  ASSUME NEW u \in Users, NEW public \in BOOLEAN, NEW t \in Things \cup {Null}, NEW content \in Contents,
         NEW row, row = Row(u, public, t, content)
  PROVE  row \in Cocktail /\ row.owner = u /\ row.parent = t
<1>1. Unrated \in [{} -> 1..5]
  BY DEF Unrated
<1>2. Unrated \in UNION {[set -> 1..5] : set \in SUBSET Users}
  BY <1>1
<1>3. QED
  BY <1>2 DEF Row, Cocktail
LEMMA MadeIsCocktail ==
  ASSUME Well, NEW r \in Requests, Ask(r).kind \in {"create", "update", "prepare"}, Ask(r).on \in Things \cup {Null}
  PROVE  Made(r) \in Cocktail /\ Made(r).owner = Ask(r).user /\ Made(r).parent = Ask(r).on
<1>1. Ask(r).user \in Users /\ Ask(r).public \in BOOLEAN /\ Ask(r).content \in Contents /\ r \in Nat
  BY Asked
<1>2. CASE Ask(r).kind \in {"prepare", "update"}
  <2>1. PICK content \in Contents : Made(r) = Row(Ask(r).user, TRUE, Ask(r).on, content)
    <3>1. CASE Ask(r).kind = "prepare"
      <4>1. Made(r) = Row(Ask(r).user, TRUE, Ask(r).on, "original")
        BY <3>1 DEF Made, Imported
      <4>2. "original" \in Contents
        BY DEF Contents
      <4>3. QED
        BY <4>1, <4>2
    <3>2. CASE Ask(r).kind = "update"
      <4>1. Made(r) = Row(Ask(r).user, TRUE, Ask(r).on, Ask(r).content)
        BY <3>2 DEF Made
      <4>2. QED
        BY <1>1, <4>1
    <3>3. QED
      BY <1>2, <3>1, <3>2
  <2>2. PICK row, public, u, t : row = Made(r) /\ public = TRUE /\ u = Ask(r).user /\ t = Ask(r).on
    OBVIOUS
  <2>3. row \in Cocktail /\ row.owner = Ask(r).user /\ row.parent = Ask(r).on
    <3>1. /\ public \in BOOLEAN /\ u \in Users /\ t \in Things \cup {Null} /\ content \in Contents
          /\ row = Row(u, public, t, content)
      BY <1>1, <2>1, <2>2
    <3>2. row \in Cocktail /\ row.owner = u /\ row.parent = t
      BY <3>1, RowIsCocktail
    <3>3. QED
      BY <2>2, <3>2
  <2>4. QED
    BY <2>2, <2>3
<1>3. CASE Ask(r).kind = "create"
  <2>1. PICK row, public, u, t, content : /\ row = Row(u, public, t, content) /\ u = Ask(r).user /\ public = Ask(r).public
                                          /\ t = Ask(r).on /\ content = Ask(r).content
    OBVIOUS
  <2>2. row \in Cocktail /\ row.owner = Ask(r).user /\ row.parent = Ask(r).on
    <3>1. public \in BOOLEAN /\ u \in Users /\ t \in Things \cup {Null} /\ content \in Contents
      BY <1>1, <2>1
    <3>2. QED
      BY <2>1, <3>1, RowIsCocktail
  <2>3. Made(r) = [row EXCEPT !.image = Uploaded(r)]
    BY <1>3, <2>1 DEF Made
  <2>4. Uploaded(r) \in Nat \cup {Null}
    BY <1>1 DEF Uploaded
  <2>5. QED
    BY <2>2, <2>3, <2>4 DEF Cocktail
<1>4. QED
  BY <1>2, <1>3

\* A cocktail is made.
LEMMA MakingStep ==
  ASSUME Well, NEW r \in Requests, Moves(r), UNCHANGED <<scene, users, favs, ratings>>,
         NEW c \in Slots, Fresh(c), NEW row \in Cocktail, cocktails' = [cocktails EXCEPT ![c] = row],
         CopiesFit(r), Ask(r).kind # "favorite"
  PROVE  FavoriteStep(r)
<1>1. Unnamed(c)
  <2>1. c \in 1..c
    BY DEF Slots
  <2>2. QED
    BY <2>1 DEF Fresh, Unnamed
<1>2. \A d \in Slots \ {c} : Steady(d)
  BY DEF Steady, Belongs, Well, Tables
<1>3. CocktailsStand /\ cocktails' \in [Slots -> Cocktail \cup {Null}]
  BY <1>1, <1>2 DEF CocktailsStand, Well, Tables
<1>4. QED
  BY <1>3, CocktailsChange DEF Well

LEMMA InsertStep ==
  ASSUME Well, NEW r \in Requests, Insert(r)
  PROVE  FavoriteStep(r)
<1>1. /\ scene \in Scenes /\ users \subseteq Users /\ RunShape /\ Tables /\ Copies(r)
  BY Asked DEF Well
<1>2. /\ Moves(r) /\ Ask(r).kind \in {"create", "update", "prepare"} /\ UNCHANGED <<scene, users, favs, ratings>>
      /\ runs[r].pc = "insert" /\ Ask(r).on \in Things \cup {Null}
  BY <1>1, InsertDoes DEF Insert, Copies
<1>3. CASE Ask(r).user \notin users
  <2>1. To(r, "failed") /\ UNCHANGED cocktails
    BY <1>3 DEF Insert
  <2>2. runs'[r].pc = "failed"
    BY <1>1, <2>1, ToStep DEF Lands, Place, Talking
  <2>3. Idles(r)
    BY <1>2, <2>2 DEF Idles, Working, Keeping, Rating, Importing
  <2>4. QED
    BY <1>1, <1>2, <2>1, <2>3, IdleStep DEF Tables, Scored
<1>4. CASE Ask(r).user \in users
  <2>1. PICK c \in Slots :
          /\ Fresh(c) /\ cocktails' = [cocktails EXCEPT ![c] = Made(r)]
          /\ Go(r, [runs[r] EXCEPT !.c = c, !.pc = IF Made(r).parent \in Externals THEN "favorite" ELSE "done"])
    BY <1>4 DEF Insert
  <2>2. PICK row \in Cocktail : row = Made(r) /\ row.owner = Ask(r).user /\ row.parent = Ask(r).on
    BY <1>2, MadeIsCocktail
  <2>3. runs'[r].c = c /\ runs'[r].pc = IF Ask(r).on \in Externals THEN "favorite" ELSE "done"
    <3>1. PICK pc : pc = IF Ask(r).on \in Externals THEN "favorite" ELSE "done"
      OBVIOUS
    <3>2. PICK q : q = [runs[r] EXCEPT !.c = c, !.pc = pc] /\ Go(r, q)
      BY <2>1, <2>2, <3>1
    <3>3. q.pc = pc /\ q.c = c
      BY <1>1, <3>2 DEF RunShape, Fits
    <3>4. QED
      BY <1>1, <3>1, <3>2, <3>3 DEF Go, RunShape
  <2>4. Ask(r)' = Ask(r)
    BY <1>2, SameAsks
  <2>5. Copies(r)'
    BY <1>2, <2>3, <2>4 DEF Copies, Holds, Keeping, Rating, Importing
  <2>6. Belongs(c, Ask(r).user, Ask(r).on)'
    <3>1. cocktails'[c] = row /\ row # Null
      BY <1>1, <2>1, <2>2, TypesAssumption DEF Tables
    <3>2. QED
      BY <2>2, <2>4, <3>1 DEF Belongs
  <2>7. CopiesFit(r)
    BY <1>2, <2>3, <2>4, <2>5, <2>6 DEF CopiesFit, Holds, Believes, Keeping, Rating, Importing, Belongs
  <2>8. QED
    BY <1>2, <2>1, <2>2, <2>7, MakingStep
<1>5. QED
  BY <1>3, <1>4

LEMMA SaveCocktailStep ==
  ASSUME Well, NEW r \in Requests, SaveCocktail(r)
  PROVE  FavoriteStep(r)
<1>1. scene \in Scenes /\ users \subseteq Users /\ RunShape /\ Tables
  BY DEF Well
<1>2. Ask(r).kind = "save" /\ UNCHANGED <<scene, users, favs, ratings>>
  BY DEF SaveCocktail, At, Keep
<1>3. Moves(r)
  BY <1>1, SaveCocktailDoes
<1>4. ASSUME runs'[r].pc \in {"failed", "mark"}
      PROVE  Idles(r)
  BY <1>2, <1>4 DEF Idles, Working, Keeping, Rating, Importing
<1>5. CASE Ask(r).user \notin users
  <2>1. To(r, "failed") /\ UNCHANGED cocktails
    BY <1>5 DEF SaveCocktail
  <2>2. runs'[r].pc = "failed"
    BY <1>1, <1>2, <2>1, ToStep DEF Lands, Place, Talking
  <2>3. QED
    BY <1>1, <1>2, <1>3, <1>4, <2>1, <2>2, IdleStep DEF Tables, Scored
<1>6. CASE Ask(r).user \in users
  <2>1. PICK c \in Slots : /\ Fresh(c) /\ cocktails' = [cocktails EXCEPT ![c] = Row(Ask(r).user, FALSE, Null, "own")]
                           /\ Go(r, [runs[r] EXCEPT !.pc = "mark", !.c = c])
    BY <1>6 DEF SaveCocktail
  <2>2. PICK row, public, u, t, content : /\ row = Row(u, public, t, content) /\ u = Ask(r).user /\ public = FALSE
                                          /\ t = Null /\ content = "own"
    OBVIOUS
  <2>3. row \in Cocktail
    <3>1. public \in BOOLEAN /\ u \in Users /\ t \in Things \cup {Null} /\ content \in Contents
      BY <2>2, Asked DEF Contents
    <3>2. QED
      BY <2>2, <3>1, RowIsCocktail
  <2>4. PICK q : q = [runs[r] EXCEPT !.pc = "mark", !.c = c] /\ Go(r, q)
    BY <2>1
  <2>5. q.pc = "mark"
    BY <1>1, <2>4 DEF RunShape, Fits
  <2>6. runs'[r].pc = "mark"
    BY <1>1, <2>4, <2>5 DEF Go, RunShape
  <2>7. CopiesFit(r)
    BY <1>2, <1>4, <2>6, IdlesFit
  <2>8. QED
    BY <1>2, <1>3, <2>1, <2>2, <2>3, <2>7, MakingStep
<1>7. QED
  BY <1>5, <1>6

\* A row that was read is saved, its owner and parent as they were.
LEMMA SavingStep ==
  ASSUME Well, NEW r \in Requests, runs[r].pc = "save", Ask(r).kind \in {"update", "remove"},
         UNCHANGED <<scene, users, favs, ratings>>, NEW row \in Cocktail, SaveRow(r, row),
         row.owner = runs[r].row.owner, row.parent = runs[r].row.parent
  PROVE  FavoriteStep(r)
<1>1. scene \in Scenes /\ users \subseteq Users /\ RunShape /\ Tables /\ Scored' /\ Copies(r) /\ Agree
  BY DEF Well, Tables, Scored
<1>2. PICK c \in Slots : c = runs[r].c /\ Holds(r, c)
  BY <1>1 DEF Copies, Holds, Keeping
<1>3. /\ Moves(r)
      /\ \/ runs'[r].pc = "done" /\ cocktails' = [cocktails EXCEPT ![c] = row]
         \/ runs'[r].pc = "failed" /\ cocktails' = cocktails
  BY <1>1, <1>2, SaveRowDoes
<1>4. Idles(r)
  BY <1>3 DEF Idles, Working, Keeping, Rating, Importing
<1>5. CASE cocktails' = cocktails
  BY <1>1, <1>3, <1>4, <1>5, IdleStep
<1>6. CASE cocktails' = [cocktails EXCEPT ![c] = row]
  <2>1. row # Null
    BY TypesAssumption
  <2>2. ASSUME NEW u \in Users, ~Erased(u)', NEW t
        PROVE  (row # Null /\ row.owner = u /\ row.parent = t) <=> Belongs(c, u, t)
    BY <1>1, <1>2, <1>3, <2>1, <2>2, CopyRight
  <2>3. CocktailsStand
    BY <1>1, <1>6, <2>2, RowStands
  <2>4. cocktails' \in [Slots -> Cocktail \cup {Null}]
    BY <1>1, <1>6 DEF Tables
  <2>5. CopiesFit(r)
    BY <1>4, IdlesFit
  <2>6. QED
    BY <1>1, <1>3, <2>3, <2>4, <2>5, CocktailsChange
<1>7. QED
  BY <1>3, <1>5, <1>6

LEMMA RecipesSave ==
  ASSUME Well, NEW r \in Requests, UpdateSave(r) \/ RemoveSave(r)
  PROVE  FavoriteStep(r)
<1>1. /\ runs[r].pc = "save" /\ Ask(r).kind \in {"update", "remove"} /\ UNCHANGED <<scene, users, favs, ratings>>
      /\ Ask(r).content \in Contents /\ r \in Nat /\ Tables
  BY Asked DEF UpdateSave, RemoveSave, At, Beside, Well
<1>2. PICK c \in Slots : c = runs[r].c /\ runs[r].row \in Cocktail
  BY <1>1, Asked DEF Copies, Holds, Keeping
<1>3. CASE UpdateSave(r)
  <2>1. PICK content \in Contents, image \in Nat \cup {Null} :
          content = Ask(r).content /\ image = IF Ask(r).picture THEN r ELSE Shown(c)
    <3>1. Shown(c) \in Nat \cup {Null}
      BY <1>1 DEF Shown, Tables, Cocktail
    <3>2. QED
      BY <1>1, <3>1
  <2>2. PICK row : row = [runs[r].row EXCEPT !.content = content, !.image = image]
    OBVIOUS
  <2>3. SaveRow(r, row)
    BY <1>2, <1>3, <2>1, <2>2 DEF UpdateSave
  <2>4. row \in Cocktail /\ row.owner = runs[r].row.owner /\ row.parent = runs[r].row.parent
    BY <1>2, <2>2 DEF Cocktail
  <2>5. QED
    BY <1>1, <2>3, <2>4, SavingStep
<1>4. CASE RemoveSave(r)
  <2>1. PICK row : row = [runs[r].row EXCEPT !.deleted = TRUE] /\ SaveRow(r, row)
    BY <1>4 DEF RemoveSave
  <2>2. row \in Cocktail /\ row.owner = runs[r].row.owner /\ row.parent = runs[r].row.parent
    BY <1>2, <2>1 DEF Cocktail
  <2>3. QED
    BY <1>1, <2>1, <2>2, SavingStep
<1>5. QED
  BY <1>3, <1>4

LEMMA AverageFits ==
  ASSUME Scored, NEW c \in Things
  PROVE  Average(c) \in UNION {[set -> 1..5] : set \in SUBSET Users}
<1>1. Scores(c) \in SUBSET Users
  BY DEF Scores
<1>2. \A u \in Scores(c) : ratings[<<u, c>>] \in 1..5
  BY DEF Scores, Scored
<1>3. Average(c) \in [Scores(c) -> 1..5]
  BY <1>2 DEF Average
<1>4. QED
  BY <1>1, <1>3

LEMMA RatesStep ==
  ASSUME Well, NEW r \in Requests, RateFind(r) \/ RateStore(r) \/ RateAverage(r)
  PROVE  FavoriteStep(r)
<1>1. scene \in Scenes /\ users \subseteq Users /\ RunShape /\ Tables /\ Scored /\ Copies(r)
  BY Asked DEF Well, Tables
<1>2. UNCHANGED <<scene, users, cocktails, favs>>
  BY DEF RateFind, RateStore, RateAverage, Keep, tables
<1>3. /\ Moves(r) /\ Ask(r).kind = "rate" /\ runs[r].pc \in Rating /\ runs'[r].c = runs[r].c
      /\ runs'[r].pc \in Rating \cup {"done", "failed"} /\ Averaged(r, runs'[r].row)
  BY <1>1, RatingDoes
<1>4. Scored'
  <2>1. ratings' = ratings \/ \E k : ratings' = [ratings EXCEPT ![k] = Ask(r).score]
    BY DEF RateFind, RateStore, RateAverage, Keep, tables
  <2>2. Ask(r).score \in 1..5
    BY <1>3, Asked
  <2>3. QED
    BY <1>1, <2>1, <2>2 DEF Scored
<1>5. ASSUME runs[r].c \in Slots
      PROVE  /\ runs'[r].row \in Cocktail /\ runs'[r].row.owner = runs[r].row.owner
             /\ runs'[r].row.parent = runs[r].row.parent
  <2>1. runs[r].row \in Cocktail
    BY <1>1, <1>3, <1>5 DEF Copies, Holds, Keeping
  <2>2. PICK avg \in UNION {[set -> 1..5] : set \in SUBSET Users} : avg = Average(runs[r].c)
    BY <1>1, <1>5, AverageFits DEF Things
  <2>3. runs'[r].row = runs[r].row \/ runs'[r].row = [runs[r].row EXCEPT !.avg = avg]
    BY <1>3, <1>5, <2>2 DEF Averaged
  <2>4. QED
    BY <2>1, <2>3 DEF Cocktail
<1>6. CASE runs'[r].pc \in Rating
  BY <1>1, <1>2, <1>3, <1>4, <1>5, <1>6, HoldingStep DEF Keeping, Rating
<1>7. CASE runs'[r].pc \in {"done", "failed"}
  <2>1. Idles(r)
    BY <1>3, <1>7 DEF Idles, Working, Keeping, Rating, Importing
  <2>2. QED
    BY <1>1, <1>2, <1>3, <1>4, <2>1, IdleStep
<1>8. QED
  BY <1>3, <1>6, <1>7

LEMMA RateTargetStep ==
  ASSUME Well, NEW r \in Requests, RateTarget(r)
  PROVE  FavoriteStep(r)
<1>1. UNCHANGED <<scene, tables>>
  BY DEF RateTarget, Keep
<1>2. scene \in Scenes /\ users \subseteq Users /\ RunShape /\ Tables /\ Scored' /\ UNCHANGED <<scene, users, cocktails, favs>>
  BY <1>1, Unwritten
<1>3. /\ Moves(r) /\ Ask(r).kind = "rate"
      /\ \/ /\ runs'[r].pc = "rate-find"
            /\ \/ runs'[r].c \in Slots /\ cocktails[runs'[r].c] # Null /\ runs'[r].row = cocktails[runs'[r].c]
               \/ runs'[r].c \in Externals
         \/ runs'[r].pc = "refused"
  BY <1>2, RateTargetDoes
<1>4. CASE runs'[r].pc = "refused"
  <2>1. Idles(r)
    BY <1>3, <1>4 DEF Idles, Working, Keeping, Rating, Importing
  <2>2. QED
    BY <1>2, <1>3, <2>1, IdleStep
<1>5. CASE runs'[r].pc = "rate-find" /\ runs'[r].c \in Slots
  <2>1. Externals \cap Slots = {}
    BY TypesAssumption DEF Slots
  <2>2. cocktails[runs'[r].c] # Null /\ runs'[r].row = cocktails[runs'[r].c]
    BY <1>3, <1>5, <2>1
  <2>3. PICK c \in Slots : c = runs'[r].c
    BY <1>5
  <2>4. QED
    BY <1>1, <1>2, <1>3, <1>5, <2>2, <2>3, ReadingStep
<1>6. CASE runs'[r].pc = "rate-find" /\ runs'[r].c \in Externals
  <2>1. Externals \cap Slots = {} /\ Ask(r)' = Ask(r)
    BY <1>2, SameAsks, TypesAssumption DEF Slots
  <2>2. CopiesFit(r)
    BY <1>3, <1>6, <2>1 DEF CopiesFit, Copies, Holds, Believes, Rating, Importing, Things
  <2>3. QED
    BY <1>2, <1>3, <2>2, TablesStand
<1>7. QED
  BY <1>3, <1>4, <1>5, <1>6

LEMMA RateSaveStep ==
  ASSUME Well, NEW r \in Requests, RateSave(r)
  PROVE  FavoriteStep(r)
<1>1. scene \in Scenes /\ users \subseteq Users /\ RunShape /\ Tables /\ Scored' /\ Copies(r) /\ Agree
      /\ UNCHANGED <<scene, users, favs, ratings>>
  BY Asked DEF Well, Tables, Scored, RateSave
<1>2. At(r, "rate", "rate-save") /\ To(r, "done")
  BY DEF RateSave
<1>3. Moves(r) /\ Ask(r).kind = "rate" /\ runs'[r].pc = "done"
  BY <1>1, <1>2, ToStep DEF At, Lands, Place, Talking
<1>4. Idles(r)
  BY <1>3 DEF Idles, Working, Keeping, Rating, Importing
<1>5. CASE cocktails' = cocktails
  BY <1>1, <1>3, <1>4, <1>5, IdleStep
<1>6. CASE cocktails' # cocktails
  <2>1. PICK c \in Slots : c = runs[r].c /\ Holds(r, c) /\ runs[r].row \in Cocktail
    BY <1>1, <1>2, <1>6 DEF RateSave, At, Copies, Holds, Keeping, Rating, Things
  <2>2. PICK owner : owner = IF cocktails[c] = Null THEN Null ELSE cocktails[c].owner
    OBVIOUS
  <2>3. PICK row : row = [runs[r].row EXCEPT !.owner = owner] /\ cocktails' = [cocktails EXCEPT ![c] = row]
    BY <1>6, <2>1, <2>2 DEF RateSave
  <2>4. owner \in Users \cup {Null}
    BY <1>1, <2>2 DEF Tables, Cocktail
  <2>5. row \in Cocktail /\ row.owner = owner /\ row.parent = runs[r].row.parent /\ row # Null
    BY <2>1, <2>3, <2>4, TypesAssumption DEF Cocktail
  <2>6. ASSUME NEW u \in Users, ~Erased(u)', NEW t
        PROVE  (row # Null /\ row.owner = u /\ row.parent = t) <=> Belongs(c, u, t)
    <3>1. ASSUME NEW p, Belongs(c, u, p)
          PROVE  runs[r].row.parent = p
      BY <1>1, <1>3, <2>1, <2>6, <3>1, CopyRight
    <3>2. CASE cocktails[c] = Null \/ cocktails[c].owner # u
      BY <2>2, <2>5, <3>2, TypesAssumption DEF Belongs
    <3>3. CASE cocktails[c] # Null /\ cocktails[c].owner = u
      <4>1. PICK p : p = cocktails[c].parent
        OBVIOUS
      <4>2. runs[r].row.parent = p
        BY <3>1, <3>3, <4>1 DEF Belongs
      <4>3. QED
        BY <2>2, <2>5, <3>3, <4>1, <4>2 DEF Belongs
    <3>4. QED
      BY <3>2, <3>3
  <2>7. CocktailsStand
    <3>1. Tables /\ cocktails' = [cocktails EXCEPT ![c] = row]
      BY <1>1, <2>3
    <3>2. QED
      BY <2>6, <3>1, RowStands
  <2>8. cocktails' \in [Slots -> Cocktail \cup {Null}]
    BY <1>1, <2>3, <2>5 DEF Tables
  <2>9. CopiesFit(r)
    BY <1>1, <1>4, IdlesFit
  <2>10. QED
    BY <1>1, <1>3, <2>7, <2>8, <2>9, CocktailsChange
<1>7. QED
  BY <1>5, <1>6

\* A favorite that stands for what its user's other one stands for.
LEMMA AkinKin ==
  ASSUME NEW u, ~Erased(u), NEW t \in Externals, NEW p, NEW on, Akin(u, p, on), Kin(u, t, on)
  PROVE  Kin(u, t, p)
<1>1. CASE p = on
  BY <1>1
<1>2. CASE p # on
  <2>1. PICK q \in Externals : Kin(u, q, p) /\ Kin(u, q, on)
    BY <1>2 DEF Akin
  <2>2. q = t
    BY <2>1, OneKin
  <2>3. QED
    BY <2>1, <2>2
<1>3. QED
  BY <1>1, <1>2

\* Favorites change, cocktails do not.
LEMMA FavoritesChange ==
  ASSUME Well, NEW r \in Requests, Moves(r), UNCHANGED <<scene, users, cocktails, ratings>>, CopiesFit(r),
         favs' \in [FavIds -> Favorite \cup {Null}],
         \A i \in FavIds : FavoriteStands(r, i),
         \A u \in Users, t \in Externals, i \in FavIds : ~Erased(u)' /\ Witness(u, t, i) => Favorable(u, t)',
         Ask(r).kind = "favorite" /\ Ask(r).on \in Externals /\ runs'[r].pc = "done" => Favorable(Ask(r).user, Ask(r).on)'
  PROVE  FavoriteStep(r)
<1>1. users \subseteq Users /\ Tables'
  BY DEF Well, Tables, Scored
<1>2. CocktailsStand
  BY DEF CocktailsStand, Steady, Belongs
<1>3. \A u \in users', t \in Externals, i \in FavIds : ~Erased(u)' /\ Witness(u, t, i) => Favorable(u, t)'
  BY <1>1
<1>4. QED
  BY <1>1, <1>2, <1>3 DEF FavoriteStep

\* Whose favorite a request changes, and for what: nobody is wrong about it.
LEMMA Believed ==
  ASSUME Well, NEW r \in Requests, NEW i \in FavIds, NEW p \in Things, Believes(r, i, p),
         NEW u \in Users, ~Erased(u), NEW t \in Externals, Witness(u, t, i)
  PROVE  u = Ask(r).user /\ Kin(u, t, p)
<1>1. BelieverRight(r, i, p)
  BY DEF Well, Beliefs
<1>2. u # Null /\ u = Ask(r).user /\ Akin(u, p, favs[i].on)
  BY <1>1, TypesAssumption DEF BelieverRight, Witness
<1>3. QED
  BY <1>2, AkinKin DEF Witness

LEMMA FavoriteSteps ==
  ASSUME Well, NEW r \in Requests, FavoriteCheck(r) \/ FavoriteInsert(r)
  PROVE  FavoriteStep(r)
<1>1. scene \in Scenes /\ users \subseteq Users /\ RunShape /\ Tables /\ Copies(r) /\ UNCHANGED <<scene, users, cocktails, ratings>>
  BY Asked DEF Well, FavoriteCheck, FavoriteInsert, Keep, tables
<1>2. Moves(r) /\ Ask(r).kind = "favorite" /\ Ask(r)' = Ask(r)
  BY <1>1, AsideDoes, SameAsks DEF Aside, FavoriteCheck, FavoriteInsert, Starts, At
<1>3. ASSUME NEW pc \in {"refused", "failed", "done", "insert-favorite"}, To(r, pc)
      PROVE  runs'[r].pc = pc
  BY <1>1, <1>2, <1>3, ToStep DEF Lands, Place, Talking
<1>4. CASE FavoriteCheck(r)
  <2>1. \/ To(r, "refused")
        \/ To(r, "insert-favorite") /\ Ask(r).on \in Things
    BY <1>4 DEF FavoriteCheck, Live, Things
  <2>2. Idles(r) /\ runs'[r].pc # "done"
    BY <1>2, <1>3, <2>1 DEF Idles, Working, Keeping, Rating, Importing
  <2>3. favs' = favs /\ Scored'
    BY <1>1, <1>4 DEF FavoriteCheck, Keep, tables, Tables, Scored
  <2>4. QED
    BY <1>1, <1>2, <2>2, <2>3, IdleStep
<1>5. CASE FavoriteInsert(r)
  <2>1. runs[r].pc = "insert-favorite" /\ (To(r, "failed") \/ To(r, "done"))
    BY <1>5 DEF FavoriteInsert, At
  <2>2. runs'[r].pc \in {"failed", "done"}
    BY <1>3, <2>1
  <2>3. Idles(r)
    BY <1>2, <2>2 DEF Idles, Working, Keeping, Rating, Importing
  <2>4. CASE To(r, "failed") /\ UNCHANGED favs
    BY <1>1, <1>2, <1>3, <2>3, <2>4, IdleStep DEF Tables, Scored
  <2>5. CASE ~(To(r, "failed") /\ UNCHANGED favs)
    <3>1. PICK row : row = [user |-> Ask(r).user, on |-> Ask(r).on]
      OBVIOUS
    <3>2. PICK i \in FavIds : (\A k \in 1..i : favs[k] = Null /\ ~Held(k) <=> k = i) /\ favs' = [favs EXCEPT ![i] = row]
      BY <1>5, <2>5, <3>1 DEF FavoriteInsert
    <3>3. favs[i] = Null /\ ~Held(i)
      <4>1. i \in 1..i
        BY DEF FavIds
      <4>2. QED
        BY <3>2, <4>1
    <3>4. row \in Favorite /\ row # Null /\ row.user = Ask(r).user /\ row.on = Ask(r).on
      <4>1. Ask(r).on \in Things /\ Ask(r).user \in Users
        BY <1>1, <2>1, Asked DEF Copies
      <4>2. row \in Favorite /\ row.user = Ask(r).user /\ row.on = Ask(r).on
        BY <3>1, <4>1 DEF Favorite
      <4>3. QED
        BY <4>2, TypesAssumption
    <3>5. /\ favs' \in [FavIds -> Favorite \cup {Null}] /\ favs'[i] = row
          /\ \A k \in FavIds \ {i} : favs'[k] = favs[k]
      BY <1>1, <3>2, <3>4 DEF Tables
    <3>6. \A k \in FavIds : FavoriteStands(r, k)
      BY <3>3, <3>5 DEF FavoriteStands
    <3>7. ASSUME NEW u \in Users, NEW t \in Externals, NEW k \in FavIds, Witness(u, t, k)
          PROVE  Favorable(u, t)'
      <4>1. k # i
        BY <3>3, <3>7 DEF Witness
      <4>2. Witness(u, t, k)'
        BY <1>1, <3>5, <3>7, <4>1 DEF Witness, Kin, Belongs
      <4>3. QED
        BY <4>2 DEF Favorable
    <3>8. ASSUME Ask(r).on \in Externals
          PROVE  Favorable(Ask(r).user, Ask(r).on)'
      <4>1. Witness(Ask(r).user, Ask(r).on, i)'
        BY <1>2, <3>4, <3>5 DEF Witness, Kin
      <4>2. QED
        BY <4>1 DEF Favorable
    <3>9. CopiesFit(r)
      BY <1>1, <2>3, IdlesFit
    <3>10. QED
      BY <1>1, <1>2, <3>5, <3>6, <3>7, <3>8, <3>9, FavoritesChange
  <2>6. QED
    BY <2>4, <2>5
<1>6. QED
  BY <1>4, <1>5

LEMMA UnfavoriteSteps ==
  ASSUME Well, NEW r \in Requests, UnfavoriteRead(r) \/ UnfavoriteDrop(r)
  PROVE  FavoriteStep(r)
<1>1. /\ scene \in Scenes /\ users \subseteq Users /\ RunShape /\ Tables /\ Copies(r)
      /\ UNCHANGED <<scene, users, cocktails, ratings>> /\ Scored'
  BY Asked DEF Well, UnfavoriteRead, UnfavoriteDrop, Keep, tables, Tables, Scored
<1>2. Moves(r) /\ Ask(r).kind = "unfavorite" /\ Ask(r)' = Ask(r) /\ Ask(r).on \in Things
  BY <1>1, AsideDoes, SameAsks, Asked DEF Aside, UnfavoriteRead, UnfavoriteDrop, Starts, At
<1>3. ASSUME NEW pc \in {"refused", "done"}, To(r, pc)
      PROVE  runs'[r].pc = pc /\ Idles(r)
  <2>1. runs'[r].pc = pc
    BY <1>1, <1>2, <1>3, ToStep DEF Lands, Place, Talking
  <2>2. QED
    BY <1>2, <2>1 DEF Idles, Working, Keeping, Rating, Importing
<1>4. CASE UnfavoriteRead(r) /\ To(r, "refused")
  <2>1. favs' = favs
    BY <1>4 DEF UnfavoriteRead, Keep, tables
  <2>2. QED
    BY <1>1, <1>2, <1>3, <1>4, <2>1, IdleStep
<1>5. CASE UnfavoriteRead(r) /\ ~To(r, "refused")
  <2>1. favs' = favs
    BY <1>5 DEF UnfavoriteRead, Keep, tables
  <2>2. PICK i \in Of(Ask(r).user, Ask(r).on) : Go(r, [Idle EXCEPT !.pc = "drop", !.fav = i])
    BY <1>5 DEF UnfavoriteRead
  <2>3. PICK q : q = [Idle EXCEPT !.pc = "drop", !.fav = i] /\ Go(r, q)
    BY <2>2
  <2>4. q.pc = "drop" /\ q.fav = i
    BY <2>3 DEF Idle
  <2>5. runs'[r].pc = "drop" /\ runs'[r].fav = i
    BY <1>1, <2>3, <2>4 DEF Go, RunShape
  <2>6. i \in FavIds /\ favs[i] # Null /\ favs[i].user = Ask(r).user /\ favs[i].on = Ask(r).on
    <3>1. i \in FavIds /\ favs[i] = [user |-> Ask(r).user, on |-> Ask(r).on]
      BY DEF Of
    <3>2. favs[i] \in Favorite
      BY <1>2, <3>1, Asked DEF Favorite
    <3>3. QED
      BY <3>1, <3>2, TypesAssumption
  <2>7. Copies(r)'
    BY <1>2, <2>5, <2>6 DEF Copies, Holds, Keeping, Rating, Importing
  <2>8. CopiesFit(r)
    BY <1>2, <2>1, <2>5, <2>6, <2>7 DEF CopiesFit, Holds, Believes, Keeping, Rating, Importing
  <2>9. QED
    BY <1>1, <1>2, <2>1, <2>8, TablesStand
<1>6. CASE UnfavoriteDrop(r)
  <2>1. PICK i \in FavIds : i = runs[r].fav /\ Believes(r, i, Ask(r).on) /\ favs' = [favs EXCEPT ![i] = Null]
    BY <1>1, <1>6 DEF UnfavoriteDrop, At, Copies, Believes
  <2>2. To(r, "done")
    BY <1>6 DEF UnfavoriteDrop
  <2>3. runs'[r].pc = "done" /\ Idles(r)
    BY <1>3, <2>2
  <2>4. /\ favs' \in [FavIds -> Favorite \cup {Null}] /\ favs'[i] = Null
        /\ \A k \in FavIds \ {i} : favs'[k] = favs[k]
    BY <1>1, <2>1 DEF Tables
  <2>5. \A k \in FavIds : FavoriteStands(r, k)
    BY <2>4 DEF FavoriteStands
  <2>6. ASSUME NEW u \in Users, NEW t \in Externals, NEW k \in FavIds, ~Erased(u)', Witness(u, t, k)
        PROVE  Favorable(u, t)'
    <3>1. CASE k # i
      <4>1. Witness(u, t, k)'
        BY <1>1, <2>4, <2>6, <3>1 DEF Witness, Kin, Belongs
      <4>2. QED
        BY <4>1 DEF Favorable
    <3>2. CASE k = i
      <4>1. ~Erased(u)
        BY <1>1, <1>2, <2>6, ErasedStays
      <4>2. u = Ask(r).user /\ Kin(u, t, Ask(r).on)
        BY <1>2, <2>1, <2>6, <3>2, <4>1, Believed
      <4>3. Kin(u, t, Ask(r).on)'
        BY <1>1, <1>2, <4>2 DEF Kin, Belongs
      <4>4. Requests' = Requests
        BY <1>1 DEF Requests
      <4>5. Gave(u, t)'
        BY <1>2, <2>3, <4>2, <4>3, <4>4 DEF Gave
      <4>6. QED
        BY <4>5 DEF Favorable
    <3>3. QED
      BY <3>1, <3>2
  <2>7. CopiesFit(r)
    BY <1>1, <2>3, IdlesFit
  <2>8. QED
    BY <1>1, <1>2, <2>4, <2>5, <2>6, <2>7, FavoritesChange
<1>7. QED
  BY <1>4, <1>5, <1>6

LEMMA ListReadStep ==
  ASSUME Well, NEW r \in Requests, ListRead(r)
  PROVE  FavoriteStep(r)
<1>1. /\ scene \in Scenes /\ users \subseteq Users /\ RunShape /\ Tables
      /\ UNCHANGED <<scene, users, cocktails, favs>> /\ Scored'
  BY DEF Well, ListRead, Keep, tables, Tables, Scored
<1>2. Moves(r) /\ Ask(r).kind = "list" /\ Ask(r)' = Ask(r)
  BY <1>1, AsideDoes, SameAsks DEF Aside, ListRead, Starts, At
<1>3. PICK rest : /\ rest = {i \in FavIds : favs[i] # Null /\ favs[i].user = Ask(r).user /\ favs[i].on \in Externals}
                  /\ Go(r, [Idle EXCEPT !.pc = "save-back", !.rest = rest, !.row = favs])
  BY DEF ListRead
<1>4. PICK q : q = [Idle EXCEPT !.pc = "save-back", !.rest = rest, !.row = favs] /\ Go(r, q)
  BY <1>3
<1>5. q.pc = "save-back" /\ q.rest = rest /\ q.row = favs
  BY <1>4 DEF Idle
<1>6. runs'[r].pc = "save-back" /\ runs'[r].rest = rest /\ runs'[r].row = favs
  BY <1>1, <1>4, <1>5 DEF Go, RunShape
<1>7. \A i \in rest : i \in FavIds /\ favs[i] # Null /\ favs[i].user = Ask(r).user /\ favs[i].on \in Externals
                      /\ favs[i] \in [user : {Ask(r).user}, on : Externals]
  BY <1>1, <1>3 DEF Tables, Favorite
<1>8. Copies(r)'
  BY <1>2, <1>6, <1>7 DEF Copies, Holds, Keeping, Rating, Importing
<1>9. CopiesFit(r)
  BY <1>1, <1>2, <1>6, <1>7, <1>8 DEF CopiesFit, Holds, Believes, Keeping, Rating, Importing
<1>10. QED
  BY <1>1, <1>2, <1>9, TablesStand

LEMMA ListSaveStep ==
  ASSUME Well, NEW r \in Requests, ListSave(r)
  PROVE  FavoriteStep(r)
<1>1. /\ scene \in Scenes /\ users \subseteq Users /\ RunShape /\ Tables /\ Copies(r) /\ Beliefs
      /\ UNCHANGED <<scene, users, cocktails, ratings>> /\ Scored'
  BY Asked DEF Well, ListSave, Keep, Tables, Scored
<1>2. At(r, "list", "save-back") /\ To(r, "done")
  BY DEF ListSave
<1>3. Moves(r) /\ Ask(r).kind = "list" /\ runs[r].pc = "save-back" /\ runs'[r].pc = "done" /\ Ask(r)' = Ask(r)
  BY <1>1, <1>2, ToStep, SameAsks DEF At, Lands, Place, Talking
<1>4. Idles(r)
  BY <1>3 DEF Idles, Working, Keeping, Rating, Importing
<1>5. CASE favs' = favs
  BY <1>1, <1>3, <1>4, <1>5, IdleStep
<1>6. CASE favs' # favs
  <2>1. favs' = [i \in FavIds |-> IF i \notin runs[r].rest THEN favs[i]
                                  ELSE IF favs[i] = Null THEN [runs[r].row[i] EXCEPT !.user = Null]
                                  ELSE [user |-> favs[i].user, on |-> runs[r].row[i].on]]
    BY <1>6 DEF ListSave
  <2>2. ASSUME NEW i \in FavIds, i \in runs[r].rest
        PROVE  \E p \in Externals :
                 /\ Believes(r, i, p)
                 /\ favs'[i] \in Favorite /\ favs'[i] # Null /\ favs'[i].on = p
                 /\ favs'[i].user = (IF favs[i] = Null THEN Null ELSE favs[i].user)
                 /\ favs'[i].user \in {Ask(r).user, Null}
    <3>1. PICK row : row = runs[r].row[i] /\ row \in [user : {Ask(r).user}, on : Externals]
      BY <1>1, <1>3, <2>2 DEF Copies
    <3>2. Believes(r, i, row.on) /\ row.on \in Externals /\ row.on \in Things
      BY <1>3, <2>2, <3>1 DEF Believes, Things
    <3>3. favs[i] # Null => favs[i].user \in {Ask(r).user, Null}
      BY <1>1, <3>2 DEF Beliefs, BelieverRight
    <3>4. CASE favs[i] = Null
      <4>1. favs'[i] = [row EXCEPT !.user = Null]
        BY <2>1, <2>2, <3>1, <3>4
      <4>2. favs'[i] \in Favorite /\ favs'[i].on = row.on /\ favs'[i].user = Null
        BY <3>1, <3>2, <4>1 DEF Favorite
      <4>3. QED
        BY <3>2, <3>4, <4>2, TypesAssumption
    <3>5. CASE favs[i] # Null
      <4>1. favs'[i] = [user |-> favs[i].user, on |-> row.on]
        BY <2>1, <2>2, <3>1, <3>5
      <4>2. favs[i].user \in Users \cup {Null}
        BY <1>1, <3>5 DEF Tables, Favorite
      <4>3. favs'[i] \in Favorite /\ favs'[i].on = row.on /\ favs'[i].user = favs[i].user
        BY <3>2, <4>1, <4>2 DEF Favorite
      <4>4. QED
        BY <3>2, <3>3, <3>5, <4>3, TypesAssumption
    <3>6. QED
      BY <3>4, <3>5
  <2>3. \A i \in FavIds : i \notin runs[r].rest => favs'[i] = favs[i]
    BY <2>1
  <2>4. favs' \in [FavIds -> Favorite \cup {Null}]
    <3>1. \A i \in FavIds : favs'[i] \in Favorite \cup {Null}
      BY <1>1, <2>2, <2>3 DEF Tables
    <3>2. QED
      BY <2>1, <3>1
  <2>5. ASSUME NEW i \in FavIds
        PROVE  FavoriteStands(r, i)
    <3>1. CASE i \notin runs[r].rest
      BY <2>3, <3>1 DEF FavoriteStands
    <3>2. CASE i \in runs[r].rest
      <4>1. PICK p \in Externals : Believes(r, i, p) /\ favs'[i].on = p /\ favs'[i].user \in {Ask(r).user, Null}
        BY <2>2, <3>2
      <4>2. Akin(Ask(r).user, p, favs[i].on)' /\ p \in Things
        BY <4>1 DEF Akin, Things
      <4>3. QED
        BY <4>1, <4>2 DEF FavoriteStands
    <3>3. QED
      BY <3>1, <3>2
  <2>6. ASSUME NEW u \in Users, NEW t \in Externals, NEW i \in FavIds, ~Erased(u)', Witness(u, t, i)
        PROVE  Favorable(u, t)'
    <3>1. CASE i \notin runs[r].rest
      <4>1. Witness(u, t, i)'
        BY <1>1, <2>3, <2>6, <3>1 DEF Witness, Kin, Belongs
      <4>2. QED
        BY <4>1 DEF Favorable
    <3>2. CASE i \in runs[r].rest
      <4>1. PICK p \in Externals : /\ Believes(r, i, p) /\ favs'[i] # Null /\ favs'[i].on = p
                                   /\ favs'[i].user = (IF favs[i] = Null THEN Null ELSE favs[i].user)
        BY <2>2, <3>2
      <4>2. favs'[i].user = u /\ p \in Things
        BY <2>6, <4>1 DEF Witness, Things
      <4>3. ~Erased(u)
        BY <1>1, <1>3, <2>6, ErasedStays
      <4>4. Kin(u, t, p)
        BY <2>6, <4>1, <4>2, <4>3, Believed
      <4>5. Kin(u, t, p)'
        BY <1>1, <4>4 DEF Kin, Belongs
      <4>6. Witness(u, t, i)'
        BY <4>1, <4>2, <4>5 DEF Witness
      <4>7. QED
        BY <4>6 DEF Favorable
    <3>3. QED
      BY <3>1, <3>2
  <2>7. CopiesFit(r)
    BY <1>1, <1>4, IdlesFit
  <2>8. QED
    BY <1>1, <1>3, <2>4, <2>5, <2>6, <2>7, FavoritesChange
<1>7. QED
  BY <1>5, <1>6

\* The import or the fork a request has made is what its favorite is to point to.
LEMMA MigratesTo ==
  ASSUME Well, NEW r \in Requests, runs[r].pc \in Importing, UNCHANGED scene, Moves(r), runs'[r].c = runs[r].c,
         Ask(r).kind \in {"create", "update", "prepare"}, runs'[r].pc \in {"done", "favorite", "rating"}
  PROVE  CopiesFit(r)
<1>1. Ask(r)' = Ask(r) /\ Ask(r).on \in Externals /\ Ask(r).on \in Things /\ runs[r].c \in Slots
  BY SameAsks, Asked DEF Copies, Things
<1>2. Copies(r)'
  BY <1>1 DEF Copies, Holds, Keeping, Rating, Importing
<1>3. QED
  BY <1>1, <1>2 DEF CopiesFit, Holds, Believes, Keeping, Rating, Importing

LEMMA MigrateReadStep ==
  ASSUME Well, NEW r \in Requests, MigrateRead(r)
  PROVE  FavoriteStep(r)
<1>1. /\ scene \in Scenes /\ users \subseteq Users /\ RunShape /\ Tables /\ Copies(r)
      /\ UNCHANGED <<scene, users, cocktails, favs>> /\ Scored'
  BY Asked DEF Well, MigrateRead, Keep, tables, Tables, Scored
<1>2. /\ Moves(r) /\ Ask(r).kind \in {"create", "update", "prepare"} /\ runs'[r].c = runs[r].c
      /\ runs[r].pc = "favorite" /\ Ask(r)' = Ask(r)
  BY <1>1, MigrationDoes, SameAsks DEF MigrateRead
<1>3. Ask(r).on \in Externals /\ Ask(r).on \in Things /\ Made(r).parent = Ask(r).on /\ runs[r].c \in Slots
  <2>1. Ask(r).on \in Externals /\ runs[r].c \in Slots
    BY <1>1, <1>2 DEF Copies, Importing
  <2>2. QED
    BY <1>2, <2>1, MadeIsCocktail DEF Things
<1>4. CASE Go(r, [runs[r] EXCEPT !.pc = Migrated(r), !.round = 2])
  <2>1. PICK pc \in {"done", "favorite", "rating"} : Go(r, [runs[r] EXCEPT !.pc = pc, !.round = 2])
    BY <1>4 DEF Migrated
  <2>2. runs'[r].pc = pc
    BY <1>1, <1>2, <2>1, RoundStep DEF Lands, Place, Talking
  <2>3. CopiesFit(r)
    BY <1>1, <1>2, <2>2, MigratesTo DEF Importing
  <2>4. QED
    BY <1>1, <1>2, <2>3, TablesStand
<1>5. CASE ~Go(r, [runs[r] EXCEPT !.pc = Migrated(r), !.round = 2])
  <2>1. PICK i \in Of(Ask(r).user, Ask(r).on) : Go(r, [runs[r] EXCEPT !.pc = "repoint", !.fav = i])
    BY <1>3, <1>5 DEF MigrateRead
  <2>2. runs'[r].pc = "repoint" /\ runs'[r].fav = i
    BY <1>1, <1>2, <2>1, FavNextStep DEF Lands, Place, Talking
  <2>3. i \in FavIds /\ favs[i] # Null /\ favs[i].user = Ask(r).user /\ favs[i].on = Ask(r).on
    <3>1. i \in FavIds /\ favs[i] = [user |-> Ask(r).user, on |-> Ask(r).on]
      BY DEF Of
    <3>2. favs[i] \in Favorite
      BY <1>3, <3>1, Asked DEF Favorite
    <3>3. QED
      BY <3>1, <3>2, TypesAssumption
  <2>4. Copies(r)'
    BY <1>2, <1>3, <2>2, <2>3 DEF Copies, Holds, Keeping, Rating, Importing
  <2>5. CopiesFit(r)
    BY <1>1, <1>2, <2>2, <2>3, <2>4 DEF CopiesFit, Holds, Believes, Keeping, Rating, Importing
  <2>6. QED
    BY <1>1, <1>2, <2>5, TablesStand
<1>6. QED
  BY <1>4, <1>5

LEMMA MigrateSaveStep ==
  ASSUME Well, NEW r \in Requests, MigrateSave(r)
  PROVE  FavoriteStep(r)
<1>1. /\ scene \in Scenes /\ users \subseteq Users /\ RunShape /\ Tables /\ Copies(r) /\ Moving /\ Beliefs
      /\ UNCHANGED <<scene, users, cocktails, ratings>> /\ Scored'
  BY Asked DEF Well, MigrateSave, Keep, Tables, Scored
<1>2. /\ Moves(r) /\ Ask(r).kind \in {"create", "update", "prepare"} /\ runs'[r].c = runs[r].c
      /\ runs[r].pc = "repoint" /\ Ask(r)' = Ask(r)
  BY <1>1, MigrationDoes, SameAsks DEF MigrateSave
<1>3. CopiesFit(r)
  <2>1. PICK pc \in {"done", "favorite", "rating"} : Go(r, [runs[r] EXCEPT !.pc = pc, !.round = 2])
    BY DEF MigrateSave, Migrated
  <2>2. runs'[r].pc = pc
    BY <1>1, <1>2, <2>1, RoundStep DEF Lands, Place, Talking
  <2>3. QED
    BY <1>1, <1>2, <2>2, MigratesTo DEF Importing
<1>4. PICK u \in Users, p \in Externals, c \in Slots, i \in FavIds :
        u = Ask(r).user /\ p = Ask(r).on /\ c = runs[r].c /\ i = runs[r].fav /\ u # Null
  BY <1>1, <1>2, Asked DEF Copies, Importing
<1>5. Believes(r, i, p) /\ p \in Things /\ c \in Things
  BY <1>2, <1>4 DEF Believes, Things
<1>6. Erased(u) \/ Kin(u, p, c)
  BY <1>1, <1>2, <1>4 DEF Moving, Importing
<1>7. CASE favs' = favs
  BY <1>1, <1>2, <1>3, <1>7, TablesStand
<1>8. CASE favs' # favs
  <2>1. PICK row : row = [user |-> u, on |-> c]
    OBVIOUS
  <2>2. row \in Favorite /\ row # Null /\ row.user = u /\ row.on = c
    BY <1>5, <2>1, TypesAssumption DEF Favorite
  <2>3. PICK to \in Favorite \cup {Null} :
          /\ favs' = [favs EXCEPT ![i] = to]
          /\ to # Null => to.on = c /\ to.user \in {u, Null}
          /\ \/ favs[i] = Null \/ to = row
             \/ Of(u, c) \ {i} # {}
    <3>1. CASE Clash(i, row)
      <4>1. favs' = [favs EXCEPT ![i] = Null] /\ Of(u, c) \ {i} # {}
        BY <1>4, <1>8, <2>1, <2>2, <3>1 DEF MigrateSave, Repointed, Clash
      <4>2. QED
        BY <4>1
    <3>2. CASE ~Clash(i, row) /\ favs[i] # Null
      <4>1. favs' = [favs EXCEPT ![i] = row]
        BY <1>4, <1>8, <2>1, <3>2 DEF MigrateSave, Repointed
      <4>2. QED
        BY <2>2, <4>1
    <3>3. CASE ~Clash(i, row) /\ favs[i] = Null
      <4>1. PICK to : to = [row EXCEPT !.user = Null]
        OBVIOUS
      <4>2. favs' = [favs EXCEPT ![i] = to]
        BY <1>4, <1>8, <2>1, <3>3, <4>1 DEF MigrateSave, Repointed
      <4>3. to \in Favorite /\ to.on = c /\ to.user = Null
        BY <2>2, <4>1 DEF Favorite
      <4>4. QED
        BY <3>3, <4>2, <4>3
    <3>4. QED
      BY <3>1, <3>2, <3>3
  <2>4. /\ favs' \in [FavIds -> Favorite \cup {Null}] /\ favs'[i] = to
        /\ \A k \in FavIds \ {i} : favs'[k] = favs[k]
    BY <1>1, <2>3 DEF Tables
  <2>5. \A w, t, on : Kin(w, t, on)' <=> Kin(w, t, on)
    BY <1>1 DEF Kin, Belongs
  <2>6. ASSUME NEW k \in FavIds
        PROVE  FavoriteStands(r, k)
    <3>1. CASE k # i \/ to = Null
      BY <2>4, <3>1 DEF FavoriteStands
    <3>2. CASE k = i /\ to # Null
      <4>1. Akin(u, p, c)
        BY <1>6 DEF Akin, Kin
      <4>2. Akin(u, p, c)'
        BY <1>1, <1>2, <4>1, <2>5, ErasedStays DEF Akin
      <4>3. Akin(Ask(r).user, p, favs[i].on)'
        BY <1>2, <1>4, <2>3, <2>4, <3>2, <4>2
      <4>4. QED
        BY <1>4, <1>5, <2>3, <2>4, <3>2, <4>3 DEF FavoriteStands
    <3>3. QED
      BY <3>1, <3>2
  <2>7. ASSUME NEW w \in Users, NEW t \in Externals, NEW k \in FavIds, ~Erased(w)', Witness(w, t, k)
        PROVE  Favorable(w, t)'
    <3>1. CASE k # i
      <4>1. Witness(w, t, k)'
        BY <2>4, <2>5, <2>7, <3>1 DEF Witness
      <4>2. QED
        BY <4>1 DEF Favorable
    <3>2. CASE k = i
      <4>1. ~Erased(w)
        BY <1>1, <1>2, <2>7, ErasedStays
      <4>2. w = u /\ Kin(u, t, p)
        BY <1>4, <1>5, <2>7, <3>2, <4>1, Believed
      <4>3. t = p
        <5>1. Externals \cap Slots = {}
          BY TypesAssumption DEF Slots
        <5>2. QED
          BY <4>2, <5>1 DEF Kin
      <4>4. Kin(u, t, c)
        BY <1>6, <4>1, <4>2, <4>3
      <4>5. CASE to = row
        <5>1. Witness(w, t, i)'
          BY <2>2, <2>4, <2>5, <4>2, <4>4, <4>5 DEF Witness
        <5>2. QED
          BY <5>1 DEF Favorable
      <4>6. CASE to # row
        <5>1. PICK j \in Of(u, c) \ {i} : TRUE
          BY <2>3, <2>7, <3>2, <4>6 DEF Witness
        <5>2. j \in FavIds /\ j # i /\ favs[j] = row
          BY <2>1, <5>1 DEF Of
        <5>3. Witness(w, t, j)'
          BY <2>2, <2>4, <2>5, <4>2, <4>4, <5>2 DEF Witness
        <5>4. QED
          BY <5>2, <5>3 DEF Favorable
      <4>7. QED
        BY <4>5, <4>6
    <3>3. QED
      BY <3>1, <3>2
  <2>8. QED
    BY <1>1, <1>2, <1>3, <2>4, <2>6, <2>7, FavoritesChange
<1>9. QED
  BY <1>7, <1>8

LEMMA MoveSteps ==
  ASSUME Well, NEW r \in Requests, MoveRead(r) \/ MoveFind(r) \/ MoveStore(r) \/ MoveRemove(r)
  PROVE  FavoriteStep(r)
<1>1. /\ scene \in Scenes /\ users \subseteq Users /\ RunShape /\ Tables /\ Copies(r) /\ Scored
      /\ UNCHANGED <<scene, users, cocktails, favs>>
  BY Asked DEF Well, MoveRead, MoveFind, MoveStore, MoveRemove, Keep, tables, Tables
<1>2. Moves(r) /\ Ask(r).kind = "prepare" /\ Ask(r)' = Ask(r)
  BY <1>1, MigrationDoes, SameAsks DEF MoveRead, MoveFind, MoveStore, MoveRemove, At
<1>3. ASSUME NEW pc \in {"done", "move-remove"}, To(r, pc), Scored'
      PROVE  FavoriteStep(r)
  <2>1. runs'[r].pc = pc
    BY <1>1, <1>2, <1>3, ToStep DEF Lands, Place, Talking
  <2>2. Idles(r)
    BY <1>2, <2>1 DEF Idles, Working, Keeping, Rating, Importing
  <2>3. QED
    BY <1>1, <1>2, <1>3, <2>2, IdleStep
<1>4. ASSUME runs'[r].pc \in {"move-find", "move-store"}, runs'[r].row \in 1..5, Scored'
      PROVE  FavoriteStep(r)
  <2>1. Copies(r)'
    BY <1>2, <1>4 DEF Copies, Holds, Keeping, Rating, Importing
  <2>2. CopiesFit(r)
    BY <1>2, <1>4, <2>1 DEF CopiesFit, Holds, Believes, Keeping, Rating, Importing
  <2>3. QED
    BY <1>1, <1>2, <1>4, <2>2, TablesStand
<1>5. CASE MoveRead(r)
  <2>1. runs[r].pc = "rating" /\ ratings' = ratings
    BY <1>5 DEF MoveRead, At, Keep, tables
  <2>2. PICK score : score = ratings[<<Ask(r).user, Ask(r).on>>]
    OBVIOUS
  <2>3. score \in 1..5 \cup {Null}
    BY <1>1, <2>1, <2>2, Asked DEF Copies, Scored
  <2>4. PICK pc \in {"done", "move-find"} : pc = (IF score = Null THEN "done" ELSE "move-find")
    OBVIOUS
  <2>5. runs'[r].pc = pc /\ runs'[r].row = score
    <3>1. Go(r, [runs[r] EXCEPT !.row = score, !.pc = pc])
      BY <1>5, <2>2, <2>4 DEF MoveRead
    <3>2. QED
      BY <1>1, <1>2, <3>1, RowStep DEF Lands, Place, Talking
  <2>6. CASE score = Null
    <3>1. Idles(r)
      BY <1>2, <2>4, <2>5, <2>6 DEF Idles, Working, Keeping, Rating, Importing
    <3>2. QED
      BY <1>1, <1>2, <2>1, <3>1, IdleStep DEF Scored
  <2>7. CASE score # Null
    BY <1>1, <1>4, <2>1, <2>3, <2>4, <2>5, <2>7 DEF Scored
  <2>8. QED
    BY <2>6, <2>7
<1>6. CASE MoveFind(r)
  <2>1. runs[r].pc = "move-find" /\ ratings' = ratings
    BY <1>6 DEF MoveFind, At, Keep, tables
  <2>2. PICK score : Go(r, [runs[r] EXCEPT !.fav = score, !.pc = "move-store"])
    BY <1>6 DEF MoveFind
  <2>3. runs'[r].pc = "move-store" /\ runs'[r].row = runs[r].row
    BY <1>1, <1>2, <2>2, FavStep DEF Lands, Place, Talking
  <2>4. QED
    BY <1>1, <1>4, <2>1, <2>3 DEF Scored, Copies
<1>7. CASE MoveStore(r)
  <2>1. runs[r].row \in 1..5
    BY <1>1, <1>7 DEF MoveStore, At, Copies
  <2>2. ratings' = ratings \/ \E k : ratings' = [ratings EXCEPT ![k] = runs[r].row]
    BY <1>7 DEF MoveStore
  <2>3. Scored'
    BY <1>1, <2>1, <2>2 DEF Scored
  <2>4. To(r, "move-remove") \/ To(r, "done")
    BY <1>7 DEF MoveStore
  <2>5. QED
    BY <1>3, <2>3, <2>4
<1>8. CASE MoveRemove(r)
  <2>1. Scored' /\ To(r, "done")
    BY <1>1, <1>8 DEF MoveRemove, Scored
  <2>2. QED
    BY <1>3, <2>1
<1>9. QED
  BY <1>5, <1>6, <1>7, <1>8

LEMMA EraseReadStep ==
  ASSUME Well, NEW r \in Requests, EraseRead(r)
  PROVE  FavoriteStep(r)
<1>1. /\ scene \in Scenes /\ users \subseteq Users /\ RunShape /\ Tables
      /\ UNCHANGED <<scene, users, cocktails, favs>> /\ Scored'
  BY DEF Well, EraseRead, Keep, tables, Tables, Scored
<1>2. /\ Moves(r) /\ Ask(r).kind = "erase" /\ Ask(r)' = Ask(r)
      /\ runs'[r].pc = "erase-cocktails" /\ runs'[r].row = cocktails
      /\ runs'[r].rest = {c \in Slots : cocktails[c] # Null /\ cocktails[c].owner = Ask(r).user}
  BY <1>1, EraseReadDoes, SameAsks
<1>3. \A c \in runs'[r].rest : c \in Slots /\ cocktails[c] # Null /\ cocktails[c].owner = Ask(r).user
                               /\ runs'[r].row[c] \in Cocktail
  BY <1>1, <1>2 DEF Tables
<1>4. Copies(r)'
  BY <1>2, <1>3 DEF Copies, Holds, Keeping, Rating, Importing
<1>5. CopiesFit(r)
  BY <1>1, <1>2, <1>3, <1>4 DEF CopiesFit, Holds, Believes, Keeping, Rating, Importing
<1>6. QED
  BY <1>1, <1>2, <1>5, TablesStand

\* A row that is nobody's, or gone, was the one of who leaves.
LEMMA LeavingStep ==
  ASSUME Well, NEW r \in Requests, Moves(r), UNCHANGED <<scene, users>>, Ask(r).kind = "erase", CopiesFit(r),
         NEW c \in runs[r].rest, NEW row \in Cocktail \cup {Null}, row # Null => row.owner = Null,
         cocktails' = [cocktails EXCEPT ![c] = row],
         favs' \in [FavIds -> Favorite \cup {Null}], Scored',
         \A i \in FavIds : favs'[i] = favs[i] \/ (favs'[i] = Null /\ favs[i].on = c)
  PROVE  FavoriteStep(r)
<1>1. /\ users \subseteq Users /\ Tables /\ Agree /\ Copies(r) /\ c \in Slots /\ c \notin Externals
  BY Asked, TypesAssumption DEF Well, Copies, Slots
<1>2. ASSUME NEW u \in Users, ~Erased(u)', NEW t
      PROVE  ~Belongs(c, u, t) /\ ((row # Null /\ row.owner = u /\ row.parent = t) <=> Belongs(c, u, t))
  <2>1. ~Erased(u) /\ u # Null
    BY <1>2, ErasedStays, TypesAssumption
  <2>2. QED
    BY <1>1, <2>1 DEF Agree, Agrees, Belongs
<1>3. CocktailsStand
  <2>1. ASSUME NEW u \in Users, ~Erased(u)', NEW t
        PROVE  (row # Null /\ row.owner = u /\ row.parent = t) <=> Belongs(c, u, t)
    BY <1>2, <2>1
  <2>2. Tables /\ c \in Slots
    BY <1>1
  <2>3. QED
    BY <2>1, <2>2, RowStands
<1>4. Tables'
  BY <1>1 DEF Tables
<1>5. \A i \in FavIds : FavoriteStands(r, i)
  BY DEF FavoriteStands
<1>6. ASSUME NEW u \in Users, NEW t \in Externals, NEW i \in FavIds, ~Erased(u)', Witness(u, t, i)
      PROVE  Favorable(u, t)'
  <2>1. PICK on : on = favs[i].on
    OBVIOUS
  <2>2. on # c
    BY <1>1, <1>2, <1>6, <2>1 DEF Witness, Kin
  <2>3. Kin(u, t, on)'
    BY <1>3, <1>6, <2>1, KinStays DEF Witness
  <2>4. Witness(u, t, i)'
    BY <1>6, <2>1, <2>2, <2>3 DEF Witness
  <2>5. QED
    BY <2>4 DEF Favorable
<1>7. QED
  BY <1>1, <1>3, <1>4, <1>5, <1>6 DEF FavoriteStep

LEMMA EraseOneStep ==
  ASSUME Well, NEW r \in Requests, EraseOne(r)
  PROVE  FavoriteStep(r)
<1>1. scene \in Scenes /\ RunShape /\ Tables /\ Copies(r) /\ UNCHANGED <<scene, users>>
  BY Asked DEF Well, EraseOne, Beside
<1>2. /\ Moves(r) /\ Ask(r).kind = "erase" /\ runs'[r].pc = "erase-cocktails" /\ Ask(r)' = Ask(r)
      /\ runs'[r].row = runs[r].row /\ runs'[r].rest \subseteq runs[r].rest
  BY <1>1, EraseOneDoes, SameAsks
<1>3. PICK c \in runs[r].rest : AnonymizeOrRemove(r, c)
  BY <1>1, EraseOneDoes
<1>4. Copies(r)'
  BY <1>1, <1>2 DEF Copies, Holds, Keeping, Rating, Importing
<1>5. CopiesFit(r)
  BY <1>2, <1>4 DEF CopiesFit, Holds, Believes, Keeping, Rating, Importing
<1>6. CASE Disown(r, c)
  <2>1. PICK row : row = [runs[r].row[c] EXCEPT !.owner = Null] /\ cocktails' = [cocktails EXCEPT ![c] = row]
    BY <1>6 DEF Disown
  <2>2. runs[r].row[c] \in Cocktail
    BY <1>1, <1>2 DEF Copies
  <2>3. row \in Cocktail /\ row.owner = Null
    BY <2>1, <2>2 DEF Cocktail
  <2>4. favs' = favs /\ Scored'
    BY <1>1, <1>6 DEF Disown, Tables, Scored
  <2>5. favs' \in [FavIds -> Favorite \cup {Null}] /\ \A i \in FavIds : favs'[i] = favs[i]
    BY <1>1, <2>4 DEF Tables
  <2>6. QED
    BY <1>1, <1>2, <1>5, <2>1, <2>3, <2>4, <2>5, LeavingStep
<1>7. CASE Drop(c)
  <2>1. cocktails' = [cocktails EXCEPT ![c] = Null]
    BY <1>7 DEF Drop
  <2>2. Scored'
    BY <1>1, <1>7 DEF Drop, Tables, Scored
  <2>3. favs' = [i \in FavIds |-> IF favs[i] # Null /\ favs[i].on = c THEN Null ELSE favs[i]]
    BY <1>7 DEF Drop
  <2>4. favs' \in [FavIds -> Favorite \cup {Null}]
    BY <1>1, <2>3 DEF Tables
  <2>5. \A i \in FavIds : favs'[i] = favs[i] \/ (favs'[i] = Null /\ favs[i].on = c)
    BY <2>3
  <2>6. QED
    BY <1>1, <1>2, <1>5, <2>1, <2>2, <2>4, <2>5, LeavingStep
<1>8. QED
  BY <1>3, <1>6, <1>7 DEF AnonymizeOrRemove

LEMMA EndingSteps ==
  ASSUME Well, NEW r \in Requests, EraseData(r) \/ EraseUser(r)
  PROVE  FavoriteStep(r)
<1>1. scene \in Scenes /\ users \subseteq Users /\ RunShape /\ Tables /\ Copies(r) /\ UNCHANGED scene
  BY Asked DEF Well, EraseData, EraseUser, Keep
<1>2. PICK u \in Users : u = Ask(r).user
  BY Asked
<1>3. /\ Moves(r) /\ Ask(r).kind = "erase" /\ Ask(r)' = Ask(r) /\ runs'[r].pc \in {"erase-user", "done"}
      /\ runs'[r].row = runs[r].row /\ runs'[r].rest = runs[r].rest
  <2>1. Ask(r).kind = "erase" /\ (To(r, "erase-user") \/ To(r, "done"))
    BY DEF EraseData, EraseUser, At
  <2>2. QED
    BY <1>1, <2>1, ToStep, SameAsks DEF Lands, Place, Talking
<1>4. Copies(r)'
  BY <1>1, <1>3 DEF Copies, Holds, Keeping, Rating, Importing
<1>5. CopiesFit(r)
  BY <1>3, <1>4 DEF CopiesFit, Holds, Believes, Keeping, Rating, Importing
<1>6. Erased(u)'
  <2>1. Requests' = Requests
    BY <1>1 DEF Requests
  <2>2. QED
    BY <1>2, <1>3, <2>1 DEF Erased
<1>7. favs' = [i \in FavIds |-> IF favs[i] # Null /\ favs[i].user = u THEN Null ELSE favs[i]]
  BY <1>2 DEF EraseData, EraseUser
<1>8. Scored' /\ users' \subseteq users
  <2>1. ratings' = ratings \/ ratings' = [k \in DOMAIN ratings |-> IF k[1] = u THEN Null ELSE ratings[k]]
    BY <1>2 DEF EraseData, EraseUser, Keep
  <2>2. QED
    BY <1>1, <2>1 DEF EraseData, EraseUser, Keep, Tables, Scored
<1>9. /\ cocktails' \in [Slots -> Cocktail \cup {Null}]
      /\ \A c \in Slots : \/ cocktails'[c] = cocktails[c]
                          \/ /\ cocktails[c] # Null /\ cocktails[c].owner = u
                             /\ cocktails'[c] \in Cocktail /\ cocktails'[c].owner = Null
  <2>1. CASE cocktails' = cocktails
    BY <1>1, <2>1 DEF Tables
  <2>2. CASE cocktails' # cocktails
    <3>1. cocktails' = [c \in Slots |-> IF cocktails[c] # Null /\ cocktails[c].owner = u
                                       THEN [cocktails[c] EXCEPT !.owner = Null] ELSE cocktails[c]]
      BY <1>2, <2>2 DEF EraseData, EraseUser, Keep
    <3>2. ASSUME NEW c \in Slots, cocktails[c] # Null, cocktails[c].owner = u
          PROVE  cocktails'[c] \in Cocktail /\ cocktails'[c].owner = Null
      <4>1. cocktails[c] \in Cocktail /\ cocktails'[c] = [cocktails[c] EXCEPT !.owner = Null]
        BY <1>1, <3>1, <3>2 DEF Tables
      <4>2. QED
        BY <4>1 DEF Cocktail
    <3>3. ASSUME NEW c \in Slots, ~(cocktails[c] # Null /\ cocktails[c].owner = u)
          PROVE  cocktails'[c] = cocktails[c]
      BY <3>1, <3>3
    <3>4. \A c \in Slots : cocktails'[c] \in Cocktail \cup {Null}
      BY <1>1, <3>2, <3>3 DEF Tables
    <3>5. QED
      BY <3>1, <3>2, <3>3, <3>4
  <2>3. QED
    BY <2>1, <2>2
<1>10. CocktailsStand
  <2>1. ASSUME NEW c \in Slots, NEW w \in Users, ~Erased(w)', NEW t
        PROVE  Belongs(c, w, t)' <=> Belongs(c, w, t)
    <3>1. w # u /\ w # Null
      BY <1>6, <2>1, TypesAssumption
    <3>2. CASE cocktails'[c] = cocktails[c]
      BY <3>2 DEF Belongs
    <3>3. CASE cocktails'[c] # cocktails[c]
      BY <1>9, <3>1, <3>3 DEF Belongs
    <3>4. QED
      BY <3>2, <3>3
  <2>2. QED
    BY <2>1 DEF CocktailsStand, Steady
<1>11. favs' \in [FavIds -> Favorite \cup {Null}] /\ \A i \in FavIds : FavoriteStands(r, i)
  BY <1>1, <1>7 DEF Tables, FavoriteStands
<1>12. ASSUME NEW w \in Users, NEW t \in Externals, NEW i \in FavIds, ~Erased(w)', Witness(w, t, i)
       PROVE  Favorable(w, t)'
  <2>1. w # u
    BY <1>6, <1>12
  <2>2. favs'[i] = favs[i]
    BY <1>7, <1>12, <2>1 DEF Witness
  <2>3. PICK on : on = favs[i].on
    OBVIOUS
  <2>4. Kin(w, t, on)'
    BY <1>10, <1>12, <2>3, KinStays DEF Witness
  <2>5. Witness(w, t, i)'
    BY <1>12, <2>2, <2>3, <2>4 DEF Witness
  <2>6. QED
    BY <2>5 DEF Favorable
<1>13. Tables'
  BY <1>8, <1>9, <1>11 DEF Tables
<1>14. QED
  BY <1>1, <1>3, <1>5, <1>8, <1>10, <1>11, <1>12, <1>13 DEF FavoriteStep

\* The talks, and the bartender's other steps.
LEMMA TalkingStep ==
  ASSUME QuotaInv, Well, NEW r \in Requests,
         \/ Generate(r) \/ ToolTurn(r) \/ ModelFails(r) \/ ModelAnswers(r) \/ Consume(r) \/ Compare(r) \/ Record(r)
         \/ SaveRead(r) \/ LookUp(r) \/ MakeName(r) \/ SaveMark(r) \/ Discard(r)
  PROVE  FavoriteStep(r)
<1>1. UNCHANGED <<scene, tables>>
  BY DEF Generate, ToolTurn, ModelFails, ModelAnswers, Consume, Compare, Record,
         SaveRead, LookUp, MakeName, SaveMark, Discard, Keep
<1>2. scene \in Scenes /\ users \subseteq Users /\ RunShape /\ Tables /\ Scored' /\ UNCHANGED <<scene, users, cocktails, favs>>
  BY <1>1, Unwritten
<1>3. /\ Moves(r) /\ Ask(r).kind \in {"generate", "regenerate", "save", "discard"}
      /\ runs'[r].pc \in Talking \cup {"look-up", "names"} \cup Ends
  <2>1. CASE SaveRead(r) \/ LookUp(r) \/ MakeName(r) \/ SaveMark(r) \/ Discard(r)
    <3>1. Ask(r).kind \in {"save", "discard"}
      BY <2>1 DEF SaveRead, LookUp, MakeName, SaveMark, Discard, Starts, At
    <3>2. QED
      BY <1>2, <2>1, <3>1, AsideDoes DEF Aside
  <2>2. CASE ~(SaveRead(r) \/ LookUp(r) \/ MakeName(r) \/ SaveMark(r) \/ Discard(r))
    BY <2>2, TalkKeepsShape DEF Ordering
  <2>3. QED
    BY <2>1, <2>2
<1>4. Idles(r)
  BY <1>3 DEF Idles, Working, Keeping, Rating, Importing, Talking, Ends
<1>5. QED
  BY <1>2, <1>3, <1>4, IdleStep

\* Nobody goes on, and of cocktails only what they say or show changes.
LEMMA StillFavorites ==
  ASSUME FavInv, UNCHANGED <<scene, users, runs, favs, ratings>>,
         ~Resolved /\ Tables => /\ cocktails' \in [Slots -> Cocktail \cup {Null}]
                                /\ \A c \in Slots : /\ cocktails'[c] = Null <=> cocktails[c] = Null
                                                    /\ cocktails'[c].owner = cocktails[c].owner
                                                    /\ cocktails'[c].parent = cocktails[c].parent
  PROVE  FavInv'
<1>1. Requests' = Requests /\ (\A s : Ask(s)' = Ask(s)) /\ (\A u : Erased(u)' <=> Erased(u)) /\ (Resolved' <=> Resolved)
  BY DEF Requests, Ask, Erased, Resolved
<1>2. CASE Resolved
  BY <1>1, <1>2 DEF FavInv
<1>3. CASE ~Resolved
  <2>1. /\ Tables /\ (\A r \in Requests : Copies(r)) /\ Agree /\ Moving /\ Beliefs /\ StillThere
        /\ cocktails' \in [Slots -> Cocktail \cup {Null}]
        /\ \A c \in Slots : /\ cocktails'[c] = Null <=> cocktails[c] = Null
                            /\ cocktails'[c].owner = cocktails[c].owner
                            /\ cocktails'[c].parent = cocktails[c].parent
    BY <1>3 DEF FavInv
  <2>2. \A c \in Slots : \A u, t : Belongs(c, u, t)' <=> Belongs(c, u, t)
    BY <2>1 DEF Belongs
  <2>3. \A u, t, on : Kin(u, t, on)' <=> Kin(u, t, on)
    BY <2>2 DEF Kin
  <2>4. \A u, p, q : Akin(u, p, q)' <=> Akin(u, p, q)
    BY <1>1, <2>3 DEF Akin
  <2>5. Tables' /\ \A r \in Requests : Copies(r)'
    BY <1>1, <2>1 DEF Tables, Scored, Copies, Holds
  <2>6. Agree'
    BY <1>1, <2>1, <2>2 DEF Agree, Agrees, Holds
  <2>7. Moving'
    BY <1>1, <2>1, <2>3 DEF Moving
  <2>8. Beliefs'
    <3>1. \A r, i, p : (Believes(r, i, p)' <=> Believes(r, i, p))
      BY <1>1 DEF Believes
    <3>2. \A r, i, p : BelieverRight(r, i, p) => BelieverRight(r, i, p)'
      BY <1>1, <2>4, <3>1 DEF BelieverRight
    <3>3. QED
      BY <1>1, <2>1, <3>1, <3>2 DEF Beliefs
  <2>9. StillThere'
    <3>1. \A u : Favored(u)' = Favored(u)
      BY <1>1 DEF Favored
    <3>2. \A u, t : Favorable(u, t) => Favorable(u, t)'
      BY <1>1, <2>3 DEF Favorable, Gave, Witness
    <3>3. QED
      BY <1>1, <2>1, <3>1, <3>2 DEF StillThere
  <2>10. QED
    BY <1>1, <2>5, <2>6, <2>7, <2>8, <2>9 DEF FavInv
<1>4. QED
  BY <1>2, <1>3

LEMMA IngestKeeps ==
  ASSUME scene \in Scenes, FavInv, NEW r \in Requests, IngestImage(r)
  PROVE  FavInv'
<1>1. UNCHANGED <<scene, users, runs, favs, ratings>> /\ r \in Nat
  BY ScenesAssumption DEF IngestImage, Requests
<1>2. PICK c : /\ c = runs[r].c
               /\ cocktails' = IF cocktails[c] = Null THEN cocktails ELSE [cocktails EXCEPT ![c].image = r]
  BY DEF IngestImage
<1>3. ASSUME Tables
      PROVE  /\ cocktails' \in [Slots -> Cocktail \cup {Null}]
             /\ \A d \in Slots : /\ cocktails'[d] = Null <=> cocktails[d] = Null
                                 /\ cocktails'[d].owner = cocktails[d].owner
                                 /\ cocktails'[d].parent = cocktails[d].parent
  <2>1. CASE cocktails[c] = Null \/ c \notin Slots
    <3>1. cocktails' = cocktails
      BY <1>2, <1>3, <2>1 DEF Tables
    <3>2. QED
      BY <1>3, <3>1 DEF Tables
  <2>2. CASE cocktails[c] # Null /\ c \in Slots
    <3>1. PICK row : row = [cocktails[c] EXCEPT !.image = r]
      OBVIOUS
    <3>2. cocktails[c] \in Cocktail
      BY <1>3, <2>2 DEF Tables
    <3>3. row \in Cocktail /\ row.owner = cocktails[c].owner /\ row.parent = cocktails[c].parent /\ row # Null
      BY <1>1, <3>1, <3>2, TypesAssumption DEF Cocktail
    <3>4. cocktails' = [cocktails EXCEPT ![c] = row]
      BY <1>2, <1>3, <2>2, <3>1 DEF Tables
    <3>5. QED
      BY <1>3, <2>2, <3>3, <3>4 DEF Tables
  <2>3. QED
    BY <2>1, <2>2
<1>4. QED
  BY <1>1, <1>3, StillFavorites

LEMMA UntouchedKeeps ==
  ASSUME FavInv, UNCHANGED <<scene, runs, users, cocktails, favs, ratings>>
  PROVE  FavInv'
BY StillFavorites DEF Tables

LEMMA FavoritesInit == BarInit => FavInv
<1>1. SUFFICES ASSUME BarInit, ~Resolved PROVE FavInv
  BY DEF FavInv
<1>2. /\ scene \in Scenes /\ runs = [r \in Requests |-> Idle] /\ users = Users
      /\ cocktails = [c \in Slots |-> IF c \in DOMAIN scene.cocktails THEN scene.cocktails[c] ELSE Null]
      /\ favs = [i \in FavIds |-> IF i \in DOMAIN scene.favs THEN scene.favs[i] ELSE Null]
      /\ ratings = [k \in Users \X Things |-> IF k \in DOMAIN scene.ratings THEN scene.ratings[k] ELSE Null]
  BY <1>1 DEF BarInit, Init, Things
<1>3. \A r \in Requests : runs[r].pc = "new" /\ runs[r].rest = {}
  BY <1>2 DEF Idle
<1>4. Tables
  <2>1. \A c \in Slots : cocktails[c] \in Cocktail \cup {Null}
    BY <1>2, ScenesAssumption
  <2>2. \A i \in FavIds : favs[i] \in Favorite \cup {Null}
    BY <1>2, ScenesAssumption
  <2>3. \A k \in Users \X Things : ratings[k] \in 1..5 \cup {Null}
    BY <1>2, ScenesAssumption
  <2>4. QED
    BY <1>2, <2>1, <2>2, <2>3 DEF Tables, Scored
<1>5. \A r \in Requests : Copies(r)
  BY <1>3 DEF Copies, Holds, Keeping, Rating, Importing
<1>6. Agree
  BY <1>3 DEF Agree, Agrees, Holds, Keeping, Rating
<1>7. Moving /\ Beliefs
  BY <1>3 DEF Moving, Beliefs, Believes, Importing
<1>8. StillThere
  <2>1. SUFFICES ASSUME NEW u \in users, NEW t \in Favored(u)
                 PROVE  Favorable(u, t)
    BY DEF StillThere
  <2>2. PICK i \in DOMAIN scene.favs : t \in Externals /\ scene.favs[i] = [user |-> u, on |-> t]
    BY <1>3 DEF Favored
  <2>3. i \in FavIds /\ favs[i] = scene.favs[i] /\ favs[i] \in Favorite /\ favs[i] # Null
    BY <1>2, <2>2, ScenesAssumption, TypesAssumption
  <2>4. Witness(u, t, i)
    BY <2>2, <2>3 DEF Witness, Kin
  <2>5. QED
    BY <2>3, <2>4 DEF Favorable
<1>9. QED
  BY <1>4, <1>5, <1>6, <1>7, <1>8 DEF FavInv

LEMMA FavoritesStep == QuotaInv /\ FavInv /\ [BarNext]_barVars => FavInv'
<1>1. SUFFICES ASSUME QuotaInv, FavInv, [BarNext]_barVars PROVE FavInv'
  OBVIOUS
<1>2. scene \in Scenes /\ (~Resolved => Well)
  BY <1>1 DEF QuotaInv, Books, FavInv, Well
<1>3. ASSUME UNCHANGED <<scene, runs, users, cocktails, favs, ratings>>
      PROVE  FavInv'
  BY <1>1, <1>3, UntouchedKeeps
<1>4. CASE \/ UNCHANGED barVars \/ Midnight \/ CleanHistory \/ (Finished /\ UNCHANGED ai)
           \/ (Sweeping /\ UNCHANGED <<scene, tables, runs, given, putBack, ai>>)
  BY <1>3, <1>4 DEF barVars, vars, tables, Midnight, CleanHistory, Finished
<1>5. ASSUME NEW r \in Requests, UNCHANGED scene, Well => FavoriteStep(r)
      PROVE  FavInv'
  BY <1>1, <1>2, <1>5, FavoriteStepKeeps
<1>6. ASSUME NEW r \in Requests, Bartending(r)
      PROVE  FavInv'
  <2>1. UNCHANGED scene
    BY <1>6 DEF Bartending, Generate, ToolTurn, ModelFails, ModelAnswers, Consume, Compare, Record,
                SaveRead, LookUp, MakeName, SaveCocktail, SaveMark, Discard, Keep
  <2>2. QED
    BY <1>1, <1>5, <1>6, <2>1, TalkingStep, SaveCocktailStep DEF Bartending
<1>7. ASSUME NEW r \in Requests, EraseHistory(r)
      PROVE  FavInv'
  BY <1>5, <1>7, EndingSteps DEF EraseHistory, EraseData, EraseUser, Keep
<1>8. ASSUME NEW r \in Requests, Recipes(r)
      PROVE  FavInv'
  <2>1. UNCHANGED scene
    BY <1>8 DEF Recipes, PrepareFind, CreateStart, Insert, UpdateRead, UpdateCount, UpdateSave, RemoveRead, RemoveSave,
                ResolveRead, Resolve, Keep, Beside
  <2>2. ASSUME Well
        PROVE  ~(ResolveRead(r) \/ Resolve(r))
    BY <2>2, Asked DEF ResolveRead, Resolve, Starts, At
  <2>3. QED
    BY <1>5, <1>8, <2>1, <2>2, RecipesStart, RecipesSave, InsertStep DEF Recipes
<1>9. ASSUME NEW r \in Requests, Pictures(r)
      PROVE  FavInv'
  <2>1. CASE Upload(r) \/ UploadFails(r)
    BY <1>5, <2>1, RecipesStart DEF Upload, UploadFails, Keep
  <2>2. CASE IngestImage(r)
    BY <1>1, <1>2, <2>2, IngestKeeps
  <2>3. CASE Storing(r) /\ UNCHANGED <<scene, tables, runs, given, putBack>>
    BY <1>3, <2>3 DEF tables
  <2>4. QED
    BY <1>9, <2>1, <2>2, <2>3 DEF Pictures
<1>10. ASSUME NEW r \in Requests, Favorites(r)
       PROVE  FavInv'
  <2>1. UNCHANGED scene
    BY <1>10 DEF Favorites, FavoriteCheck, FavoriteInsert, UnfavoriteRead, UnfavoriteDrop, ListRead, ListSave, MigrateRead,
                 MigrateSave, Keep
  <2>2. QED
    BY <1>5, <1>10, <2>1, FavoriteSteps, UnfavoriteSteps, ListReadStep, ListSaveStep, MigrateReadStep, MigrateSaveStep
       DEF Favorites
<1>11. ASSUME NEW r \in Requests, Ratings(r)
       PROVE  FavInv'
  <2>1. UNCHANGED scene
    BY <1>11 DEF Ratings, MoveRead, MoveFind, MoveStore, MoveRemove, RateTarget, RateFind, RateStore, RateAverage, RateSave, Keep
  <2>2. QED
    BY <1>5, <1>11, <2>1, MoveSteps, RateTargetStep, RatesStep, RateSaveStep DEF Ratings
<1>12. ASSUME NEW r \in Requests, EraseRead(r) \/ EraseOne(r)
       PROVE  FavInv'
  <2>1. UNCHANGED scene
    BY <1>12 DEF EraseRead, EraseOne, Keep, Beside
  <2>2. QED
    BY <1>5, <1>12, <2>1, EraseReadStep, EraseOneStep
<1>13. QED
  BY <1>1, <1>4, <1>6, <1>7, <1>8, <1>9, <1>10, <1>11, <1>12 DEF BarNext

\* A remote cocktail once a favorite stays one for as long as its user has not
\* withdrawn it, however imports, forks, listings and erasures overlap.
THEOREM FavoritesKeptHolds == BarSpec => []FavoritesKept
<1>1. FavInv => FavoritesKept
  <2>1. SUFFICES ASSUME FavInv, ~Resolved, NEW u \in users, NEW t \in Favored(u), ~Withdrawn(u, t)
                 PROVE  \E i \in FavIds : favs[i] # Null /\ favs[i].user = u /\ Same(t, favs[i].on)
    BY DEF FavoritesKept
  <2>2. \A on : Kin(u, t, on) => Same(t, on)
    BY DEF Kin, Same, Belongs
  <2>3. ~Erased(u) /\ ~Gave(u, t)
    BY <2>1, <2>2 DEF Withdrawn, Erased, Gave
  <2>4. PICK i \in FavIds : Witness(u, t, i)
    BY <2>1, <2>3 DEF FavInv, StillThere, Favorable
  <2>5. QED
    BY <2>2, <2>4 DEF Witness
<1>2. QED
  BY <1>1, QuotaInit, QuotaStep, FavoritesInit, FavoritesStep, PTL DEF BarSpec
===============================================================================
