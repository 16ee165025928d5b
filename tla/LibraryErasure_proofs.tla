------------------------ MODULE LibraryErasure_proofs ------------------------
(***************************************************************************)
(* What is left of a user, and where a rating is kept: theorems about the   *)
(* erasure of an account, which every table and the disk must forget, and   *)
(* about ratings, which move with the recipe that an import creates.        *)
(***************************************************************************)
EXTENDS Library_proofs

(******************************** the erasure ******************************)
\* Nothing is in the name of who has no account.
FavsBelong == \A i \in FavIds : favs[i] # Null => favs[i].user \in users \cup {Null}
ScoresBelong == \A u \in Users, t \in Things : ratings[<<u, t>>] # Null => u \in users
RowsBelong == \A c \in Slots : cocktails[c] # Null => cocktails[c].owner \in users \cup {Null}
\* A row that a request has read and may save, or act upon.
Copying == Keeping \cup {"drop-cocktail"}
Copy(r, c, row) ==
  \/ runs[r].pc \in Copying /\ runs[r].c = c /\ row = runs[r].row
  \/ Ask(r).kind = "erase" /\ runs[r].pc = "erase-cocktails" /\ c \in runs[r].rest /\ row = runs[r].row[c]
\* Who edits or removes a recipe has read that it is the owner.
Ours(r) == runs[r].pc \in {"count", "save"} => runs[r].row.owner = Ask(r).user
\* Two rows that differ in their average, or in what they say, at most.
SameRow(p, q) == /\ p.owner = q.owner /\ p.public = q.public /\ p.image = q.image
                /\ p.parent = q.parent /\ p.deleted = q.deleted
Typed == /\ scene \in Scenes /\ users \subseteq Users /\ RunShape /\ Tables
         /\ \A r \in Requests : Copies(r) /\ Ours(r)

\* What a request's step may do to a row: make it, save the one read, with a new
\* average or without its owner, or delete it.
Makes(r, c) ==
  /\ Unnamed(c) /\ cocktails'[c] # Null /\ runs'[r].c = c /\ Ask(r).user \in users
  /\ Ask(r).kind \in {"create", "update", "prepare", "save"}
  /\ cocktails'[c].owner = Ask(r).user /\ ~cocktails'[c].deleted
  /\ cocktails'[c].parent = (IF Ask(r).kind = "save" THEN Null ELSE Ask(r).on)
  /\ Ask(r).kind # "save" => runs[r].pc = "insert"
  /\ Ask(r).kind = "create" => cocktails'[c].public = Ask(r).public /\ cocktails'[c].image = Uploaded(r)
Saves(r, c) ==
  /\ runs[r].pc = "save" /\ runs[r].c = c /\ runs'[r].pc = "done" /\ runs'[r].c = c /\ cocktails'[c] # Null
  /\ Ask(r).kind \in {"update", "remove"} /\ runs[r].row.owner \in users \cup {Null}
  /\ \E image, deleted : /\ SameRow(cocktails'[c], [runs[r].row EXCEPT !.image = image, !.deleted = deleted])
                         /\ IF Ask(r).kind = "remove" THEN image = runs[r].row.image /\ deleted = TRUE
                            ELSE /\ image = (IF Ask(r).picture THEN r ELSE Shown(c))
                                 /\ deleted = runs[r].row.deleted
Weighs(r, c) ==
  /\ Ask(r).kind = "rate" /\ runs[r].pc = "rate-save" /\ runs[r].c = c /\ runs'[r].c = c /\ cocktails'[c] # Null
  /\ SameRow(cocktails'[c], [runs[r].row EXCEPT !.owner = IF cocktails[c] = Null THEN Null ELSE cocktails[c].owner])
Frees(r, c) ==
  /\ Ask(r).kind = "erase" /\ runs[r].pc = "erase-cocktails" /\ c \in runs[r].rest /\ cocktails'[c] # Null
  /\ runs[r].row[c].public
  /\ SameRow(cocktails'[c], [runs[r].row[c] EXCEPT !.owner = Null])
Drops(r, c) ==
  /\ Ask(r).kind \in {"erase", "resolve"} /\ cocktails'[c] = Null
  /\ \E row : Copy(r, c, row) /\ disk' = Without(row.image)
Leaves(r, c) ==
  /\ Ask(r).kind = "erase" /\ runs[r].pc = "erase-user" /\ cocktails[c] # Null /\ cocktails[c].owner = Ask(r).user
  /\ cocktails'[c] # Null /\ SameRow(cocktails'[c], [cocktails[c] EXCEPT !.owner = Null])
Alters(r, c) == \/ cocktails'[c] = cocktails[c] \/ Makes(r, c) \/ Saves(r, c) \/ Weighs(r, c)
                \/ Frees(r, c) \/ Drops(r, c) \/ Leaves(r, c)

\* A request is answered, or a new one of a user who may send it.
Goes(r) == \/ Running(r)
           \/ /\ runs[r].pc = "new" /\ Ask(r).user \in users
              /\ scene.patient => \A s \in Requests : Running(s) => Ask(s).user # Ask(r).user
\* What it has read, or has had read before.
Learns(r) == \A c \in Slots : \A row : Copy(r, c, row)' =>
  \/ \E old : Copy(r, c, old) /\ SameRow(row, old)
  \/ cocktails[c] # Null /\ row = cocktails[c] /\ cocktails' = cocktails
\* The cocktail it is about, and how far its picture has come.
Minds(r) ==
  /\ Ask(r).kind = "rate" => runs[r].pc = "new" \/ runs'[r].c = runs[r].c
  /\ Ask(r).kind = "prepare" => \/ runs[r].pc = "new" \/ runs'[r].c = runs[r].c
                                \/ runs'[r].c \in Slots /\ Unnamed(runs'[r].c)
  /\ Ask(r).kind = "create" /\ runs'[r].pc = "insert" => runs[r].pc = "new" \/ photo[r] = "saved"
  /\ Ask(r).kind = "create" /\ runs'[r].pc \in {"favorite", "repoint", "done"} =>
       \/ runs[r].pc \in {"favorite", "repoint"} /\ runs'[r].c = runs[r].c
       \/ runs[r].pc = "insert" /\ runs'[r].c \in Slots /\ Makes(r, runs'[r].c)
  /\ \/ photo' = photo \/ runs'[r].pc = "upload"
     \/ Ask(r).kind = "prepare" /\ runs[r].pc = "insert" /\ runs'[r].c \in Slots /\ Unnamed(runs'[r].c)
\* An erasure goes through the cocktails it has read, then the account goes.
Owned(u) == {c \in Slots : cocktails[c] # Null /\ cocktails[c].owner = u}
Erases(r) == Ask(r).kind = "erase" =>
  \/ /\ runs[r].pc = "new" /\ runs'[r].pc = "erase-cocktails"
     /\ runs'[r].rest = Owned(Ask(r).user) /\ cocktails' = cocktails /\ users' = users
  \/ /\ runs[r].pc = "erase-cocktails" /\ runs'[r].pc = "erase-cocktails" /\ users' = users
     /\ \E c \in runs[r].rest : (Frees(r, c) \/ Drops(r, c)) /\ runs'[r].rest = runs[r].rest \ {c}
  \/ /\ runs[r].pc = "erase-cocktails" /\ runs'[r].pc = "erase-user" /\ runs[r].rest = {}
     /\ cocktails' = cocktails /\ users' = users
  \/ /\ runs[r].pc = "erase-user" /\ runs'[r].pc = "done" /\ users' = users \ {Ask(r).user}
     /\ \A c \in Slots : cocktails'[c] # Null => cocktails'[c].owner # Ask(r).user
LibraryStep(r) ==
  /\ Moves(r) /\ UNCHANGED scene /\ Goes(r)
  /\ Tables' /\ Copies(r)' /\ Ours(r)' /\ FavsBelong' /\ ScoresBelong'
  /\ Ask(r).kind # "erase" => users' = users
  /\ \A c \in Slots : Alters(r, c)
  /\ Learns(r) /\ Minds(r) /\ Erases(r)

\* What a request asks for.
LEMMA AskedOf ==
  ASSUME Typed, NEW r \in Requests
  PROVE  /\ Ask(r).user \in Users /\ Ask(r).user # Null /\ Ask(r).public \in BOOLEAN /\ Ask(r).content \in Contents
         /\ r \in Nat /\ Copies(r) /\ Ours(r)
         /\ Ask(r).kind = "create" => Ask(r).on \in Things \cup {Null}
         /\ Ask(r).kind = "unfavorite" => Ask(r).on \in Things
         /\ Ask(r).kind = "rate" => Ask(r).score \in 1..5
         /\ Ask(r).kind = "resolve" => Ask(r).on \in Slots
  BY ScenesAssumption, TypesAssumption DEF Typed, Requests, Ask, Contents

\* A new request comes, or one that has begun goes on.
LEMMA StartsGoes ==
  ASSUME NEW r \in Requests, NEW kind, Starts(r, kind)
  PROVE  Goes(r)
  BY DEF Starts, At, Goes
LEMMA RunningGoes ==
  ASSUME NEW r \in Requests, runs[r].pc \notin {"new", "done", "refused", "failed"}
  PROVE  Goes(r)
  BY DEF Goes, Running, Ends

\* The tables as they are.
LEMMA TablesSame ==
  ASSUME Typed, FavsBelong, ScoresBelong, UNCHANGED tables
  PROVE  Tables' /\ FavsBelong' /\ ScoresBelong'
  BY DEF Typed, tables, Tables, Scored, FavsBelong, ScoresBelong

\* A step after which the request works on no row it has read.
LEMMA IdleHandles ==
  ASSUME Typed, NEW r \in Requests, Moves(r), UNCHANGED <<scene, users>>, Goes(r), Idles(r), runs'[r].pc # "drop-cocktail",
         Tables', FavsBelong', ScoresBelong', Minds(r), \A c \in Slots : Alters(r, c)
  PROVE  LibraryStep(r)
<1>1. Copies(r)' /\ Ask(r)' = Ask(r)
  BY IdlesFit, SameAsks DEF CopiesFit
<1>2. runs'[r].pc \notin Copying \cup {"count", "save"} /\ Ask(r).kind # "erase"
  BY DEF Idles, Working, Copying, Keeping, Rating
<1>3. Ours(r)' /\ Learns(r)
  BY <1>1, <1>2 DEF Ours, Learns, Copy
<1>4. QED
  BY <1>1, <1>2, <1>3 DEF LibraryStep, Erases

LEMMA IdleLeaves ==
  ASSUME Typed, NEW r \in Requests, Moves(r), UNCHANGED <<scene, users, cocktails>>, Goes(r), Idles(r),
         runs'[r].pc # "drop-cocktail", Tables', FavsBelong', ScoresBelong', Minds(r)
  PROVE  LibraryStep(r)
  BY IdleHandles DEF Alters

\* One that leaves the cocktails alone, and knows of none.
LEMMA WorkLeaves ==
  ASSUME Typed, NEW r \in Requests, Moves(r), UNCHANGED <<scene, users, cocktails>>, Goes(r), Ask(r).kind # "erase",
         Copies(r)', runs'[r].pc \notin Copying, Tables', FavsBelong', ScoresBelong', Minds(r)
  PROVE  LibraryStep(r)
<1>1. Ours(r)' /\ Learns(r)
  BY SameAsks DEF Ours, Learns, Copy, Copying, Keeping
<1>2. QED
  BY <1>1 DEF LibraryStep, Erases, Alters

\* A row is read to be saved or deleted.
LEMMA ReadHandles ==
  ASSUME Typed, FavsBelong, ScoresBelong, UNCHANGED <<scene, tables>>, NEW r \in Requests, Moves(r), Goes(r),
         Ask(r).kind \in {"update", "remove", "rate", "resolve"},
         runs'[r].pc \in {"count", "save", "rate-find", "drop-cocktail"},
         runs'[r].pc = "count" => Ask(r).on \in Things, Minds(r),
         NEW c \in Slots, runs'[r].c = c, cocktails[c] # Null, runs'[r].row = cocktails[c],
         runs'[r].pc \in {"count", "save"} => cocktails[c].owner = Ask(r).user
  PROVE  LibraryStep(r)
<1>1. Ask(r)' = Ask(r)
  BY SameAsks
<1>2. cocktails' = cocktails /\ users' = users /\ cocktails[c] \in Cocktail /\ c \in Things
  BY DEF Typed, tables, Tables, Things
<1>3. Copies(r)'
  BY <1>1, <1>2 DEF Copies, Holds, Rating, Importing
<1>4. Ours(r)' /\ Learns(r)
  BY <1>1, <1>2 DEF Ours, Learns, Copy
<1>5. QED
  BY <1>2, <1>3, <1>4, TablesSame DEF LibraryStep, Erases, Alters

\* It goes on with the row it has.
LEMMA HoldHandles ==
  ASSUME Typed, FavsBelong, UNCHANGED <<scene, users, cocktails, favs>>, Scored', ScoresBelong',
         NEW r \in Requests, Moves(r), Goes(r), Ask(r).kind \in {"update", "rate"}, runs[r].pc \in Keeping,
         runs'[r].pc \in {"save"} \cup Rating, runs'[r].pc = "save" => runs[r].pc \in {"count", "save"},
         runs'[r].c = runs[r].c, photo' = photo,
         runs[r].c \in Slots => runs'[r].row \in Cocktail /\ SameRow(runs'[r].row, runs[r].row)
  PROVE  LibraryStep(r)
<1>1. Ask(r)' = Ask(r) /\ Copies(r) /\ Ours(r)
  BY SameAsks, AskedOf
<1>2. runs[r].c \in Things /\ (runs'[r].pc = "save" => runs[r].c \in Slots)
  BY <1>1 DEF Copies, Keeping, Things
<1>3. Copies(r)'
  BY <1>1, <1>2 DEF Copies, Holds, Rating, Importing
<1>4. Ours(r)'
  BY <1>1, <1>2 DEF Ours, SameRow, Rating
<1>5. Learns(r)
  BY <1>1 DEF Learns, Copy, Copying, Keeping, Rating
<1>6. Minds(r) /\ Tables' /\ FavsBelong'
  BY DEF Minds, Typed, Tables, FavsBelong
<1>7. QED
  BY <1>1, <1>3, <1>4, <1>5, <1>6 DEF LibraryStep, Erases, Alters

LEMMA RecipeStartsHandle ==
  ASSUME PicInv, Typed, FavsBelong, ScoresBelong, NEW r \in Requests,
         PrepareFind(r) \/ CreateStart(r) \/ UpdateRead(r) \/ UpdateCount(r) \/ RemoveRead(r) \/ ResolveRead(r)
         \/ Upload(r) \/ UploadFails(r)
  PROVE  LibraryStep(r)
<1>0. /\ RunShape /\ Copies(r) /\ Ours(r) /\ (Ask(r).kind = "resolve" => Ask(r).on \in Slots)
      /\ Ask(r).kind = "create" => Ask(r).on \in Things \cup {Null}
  BY AskedOf DEF Typed
<1>1. UNCHANGED <<scene, tables>>
  BY DEF PrepareFind, CreateStart, UpdateRead, UpdateCount, RemoveRead, ResolveRead, Upload, UploadFails, Keep, Beside
<1>2. Tables' /\ FavsBelong' /\ ScoresBelong' /\ UNCHANGED <<scene, users, cocktails>>
  BY <1>1, TablesSame DEF tables
<1>3. Goes(r)
  <2>1. CASE PrepareFind(r) \/ RemoveRead(r) \/ ResolveRead(r)
    BY <2>1, StartsGoes DEF PrepareFind, RemoveRead, ResolveRead
  <2>2. CASE CreateStart(r) \/ UpdateRead(r)
    BY <2>2, StartsGoes, RunningGoes DEF CreateStart, UpdateRead, Ready, At
  <2>3. CASE UpdateCount(r) \/ UploadFails(r)
    BY <2>3, RunningGoes DEF UpdateCount, UploadFails, At
  <2>4. CASE Upload(r)
    BY <2>4, StartsGoes DEF Upload
  <2>5. QED
    BY <2>1, <2>2, <2>3, <2>4
<1>4. CASE PrepareFind(r)
  <2>1. /\ Moves(r) /\ Ask(r).kind = "prepare" /\ runs'[r].pc \in {"done", "refused", "insert"}
    BY <1>0, <1>4, PrepareFindDoes
  <2>2. runs'[r].pc = "insert" => Ask(r).on \in Externals
    <3>1. CASE \E c : Go(r, [Idle EXCEPT !.pc = "done", !.c = c])
      <4>1. PICK q, c : q = [Idle EXCEPT !.pc = "done", !.c = c] /\ Go(r, q)
        BY <3>1
      <4>2. q.pc = "done" /\ runs'[r] = q
        BY <1>0, <4>1 DEF Idle, Go, RunShape
      <4>3. QED
        BY <4>2
    <3>2. CASE \E pc \in {"refused"} \cup (IF Ask(r).on \in Externals THEN {"insert"} ELSE {}) : To(r, pc)
      <4>1. PICK pc \in {"refused"} \cup (IF Ask(r).on \in Externals THEN {"insert"} ELSE {}) : To(r, pc)
        BY <3>2
      <4>2. Lands(Ask(r).kind, pc)
        BY <2>1, <4>1 DEF Lands, Place, Talking
      <4>3. runs'[r].pc = pc
        BY <1>0, <4>1, <4>2, ToStep
      <4>4. QED
        BY <4>1, <4>3
    <3>3. QED
      BY <1>4, <3>1, <3>2 DEF PrepareFind
  <2>3. Idles(r)
    BY <2>1, <2>2 DEF Idles, Working, Keeping, Rating, Importing, Things
  <2>4. Minds(r)
    BY <1>4, <2>1 DEF Minds, PrepareFind, Starts, At, Keep, pictures
  <2>5. QED
    BY <1>2, <1>3, <2>1, <2>3, <2>4, IdleLeaves
<1>5. CASE CreateStart(r)
  <2>1. /\ Moves(r) /\ Ask(r).kind = "create" /\ runs[r].pc \in {"new", "upload"} /\ runs'[r].pc = "insert"
        /\ runs[r].pc = "new" \/ photo[r] = "saved"
    BY <1>0, <1>5, CreateStartDoes
  <2>2. Idles(r) /\ Minds(r)
    BY <1>0, <1>5, <2>1 DEF Idles, Minds, CreateStart, Keep, pictures
  <2>3. QED
    BY <1>2, <1>3, <2>1, <2>2, IdleLeaves
<1>6. CASE UpdateRead(r)
  <2>1. /\ Moves(r) /\ Ask(r).kind = "update"
        /\ \/ /\ Live(Ask(r).on)
              /\ runs'[r].pc = "count" /\ runs'[r].c = Ask(r).on /\ runs'[r].row = cocktails[Ask(r).on]
           \/ runs'[r].pc = "refused"
    BY <1>0, <1>6, UpdateReadDoes
  <2>2. Minds(r)
    BY <1>6, <2>1 DEF Minds, UpdateRead, Beside
  <2>3. CASE runs'[r].pc = "refused"
    <3>1. Idles(r)
      BY <2>1, <2>3 DEF Idles, Working, Keeping, Rating, Importing
    <3>2. QED
      BY <1>2, <1>3, <2>1, <2>2, <2>3, <3>1, IdleLeaves
  <2>4. CASE runs'[r].pc # "refused"
    <3>1. Ask(r).on \in Slots /\ Ask(r).on \in Things /\ cocktails[Ask(r).on] # Null
      BY <2>1, <2>4 DEF Live, Things
    <3>2. cocktails[Ask(r).on].owner = Ask(r).user
      <4>1. CASE To(r, "refused")
        BY <1>0, <2>1, <2>4, <4>1, ToStep DEF Lands, Place, Talking
      <4>2. QED
        BY <1>6, <4>1 DEF UpdateRead
    <3>3. QED
      BY <1>1, <1>3, <2>1, <2>2, <2>4, <3>1, <3>2, ReadHandles
  <2>5. QED
    BY <2>3, <2>4
<1>7. CASE UpdateCount(r)
  <2>1. /\ Moves(r) /\ Ask(r).kind = "update" /\ runs[r].pc = "count" /\ runs'[r].pc \in {"insert", "save"}
        /\ runs'[r].c = runs[r].c /\ runs'[r].row = runs[r].row
    BY <1>0, <1>7, UpdateCountDoes
  <2>2. photo' = photo /\ favs' = favs /\ Scored'
    BY <1>2, <1>7 DEF UpdateCount, Keep, pictures, tables, Tables
  <2>3. CASE runs'[r].pc = "insert"
    <3>1. Idles(r) /\ Minds(r)
      BY <1>0, <2>1, <2>2, <2>3 DEF Idles, Copies, Minds
    <3>2. QED
      BY <1>2, <1>3, <2>1, <2>3, <3>1, IdleLeaves
  <2>4. CASE runs'[r].pc = "save"
    <3>1. runs[r].c \in Slots => runs'[r].row \in Cocktail /\ SameRow(runs'[r].row, runs[r].row)
      BY <1>0, <2>1 DEF Copies, Holds, Keeping, SameRow
    <3>2. QED
      BY <1>2, <1>3, <2>1, <2>2, <2>4, <3>1, HoldHandles DEF Keeping
  <2>5. QED
    BY <2>1, <2>3, <2>4
<1>8. CASE RemoveRead(r)
  <2>1. /\ Moves(r) /\ Ask(r).kind = "remove"
        /\ \/ /\ Live(Ask(r).on)
              /\ runs'[r].pc = "save" /\ runs'[r].c = Ask(r).on /\ runs'[r].row = cocktails[Ask(r).on]
           \/ runs'[r].pc = "refused"
    BY <1>0, <1>8, RemoveReadDoes
  <2>2. Minds(r)
    BY <1>8, <2>1 DEF Minds, RemoveRead, Keep, pictures
  <2>3. CASE runs'[r].pc = "refused"
    <3>1. Idles(r)
      BY <2>1, <2>3 DEF Idles, Working, Keeping, Rating, Importing
    <3>2. QED
      BY <1>2, <1>3, <2>1, <2>2, <2>3, <3>1, IdleLeaves
  <2>4. CASE runs'[r].pc # "refused"
    <3>1. Ask(r).on \in Slots /\ cocktails[Ask(r).on] # Null
      BY <2>1, <2>4 DEF Live
    <3>2. cocktails[Ask(r).on].owner = Ask(r).user
      <4>1. CASE To(r, "refused")
        BY <1>0, <2>1, <2>4, <4>1, ToStep DEF Lands, Place, Talking
      <4>2. QED
        BY <1>8, <4>1 DEF RemoveRead
    <3>3. QED
      BY <1>1, <1>3, <2>1, <2>2, <2>4, <3>1, <3>2, ReadHandles
  <2>5. QED
    BY <2>3, <2>4
<1>9. CASE ResolveRead(r)
  <2>1. /\ Moves(r) /\ Ask(r).kind = "resolve"
        /\ \/ /\ cocktails[Ask(r).on] # Null
              /\ runs'[r].pc = "drop-cocktail" /\ runs'[r].c = Ask(r).on /\ runs'[r].row = cocktails[Ask(r).on]
           \/ runs'[r].pc = "done"
    BY <1>0, <1>9, ResolveReadDoes
  <2>2. Minds(r)
    BY <1>9, <2>1 DEF Minds, ResolveRead, Keep, pictures
  <2>3. CASE runs'[r].pc = "done"
    <3>1. Idles(r)
      BY <2>1, <2>3 DEF Idles, Working, Keeping, Rating, Importing
    <3>2. QED
      BY <1>2, <1>3, <2>1, <2>2, <2>3, <3>1, IdleLeaves
  <2>4. CASE runs'[r].pc # "done"
    BY <1>0, <1>1, <1>3, <2>1, <2>2, <2>4, ReadHandles
  <2>5. QED
    BY <2>3, <2>4
<1>10. CASE Upload(r)
  <2>1. Moves(r) /\ Ask(r).kind \in {"create", "update"} /\ runs'[r].pc = "upload"
    BY <1>0, <1>10, UploadDoes
  <2>2. Idles(r) /\ Minds(r)
    BY <2>1 DEF Idles, Working, Keeping, Rating, Importing, Minds
  <2>3. QED
    BY <1>2, <1>3, <2>1, <2>2, IdleLeaves
<1>11. CASE UploadFails(r)
  <2>1. Moves(r) /\ Ask(r).kind \in {"create", "update"} /\ runs'[r].pc = "failed" /\ photo' = photo
    BY <1>0, <1>11, UploadFailsDoes DEF UploadFails, Keep, pictures
  <2>2. Idles(r) /\ Minds(r)
    BY <2>1 DEF Idles, Working, Keeping, Rating, Importing, Minds
  <2>3. QED
    BY <1>2, <1>3, <2>1, <2>2, IdleLeaves
<1>12. QED
  BY <1>4, <1>5, <1>6, <1>7, <1>8, <1>9, <1>10, <1>11

\* A request makes a cocktail of its user's.
LEMMA MadeOf ==
  ASSUME Typed, NEW r \in Requests, Ask(r).kind \in {"create", "update", "prepare"}, Ask(r).on \in Things \cup {Null}
  PROVE  /\ Made(r) \in Cocktail /\ Made(r).owner = Ask(r).user /\ Made(r).parent = Ask(r).on /\ ~Made(r).deleted
         /\ Ask(r).kind = "create" => Made(r).public = Ask(r).public /\ Made(r).image = Uploaded(r)
<1>1. Ask(r).user \in Users /\ Ask(r).public \in BOOLEAN /\ Ask(r).content \in Contents /\ r \in Nat
  BY AskedOf
<1>2. PICK u, public, t, content, image :
        /\ u = Ask(r).user /\ t = Ask(r).on
        /\ public = IF Ask(r).kind = "create" THEN Ask(r).public ELSE TRUE
        /\ content = IF Ask(r).kind = "prepare" THEN "original" ELSE Ask(r).content
        /\ image = IF Ask(r).kind = "create" THEN Uploaded(r) ELSE Null
  OBVIOUS
<1>3. PICK row : row = Row(u, public, t, content)
  OBVIOUS
<1>4. u \in Users /\ public \in BOOLEAN /\ t \in Things \cup {Null} /\ content \in Contents /\ image \in Nat \cup {Null}
  BY <1>1, <1>2 DEF Contents, Uploaded
<1>5. row \in Cocktail /\ row.owner = u /\ row.parent = t
  BY <1>3, <1>4, RowIsCocktail
<1>6. row.public = public /\ ~row.deleted /\ row.image = Null
  BY <1>3 DEF Row
<1>7. Made(r) = IF Ask(r).kind = "create" THEN [row EXCEPT !.image = image] ELSE row
  <2>1. CASE Ask(r).kind = "prepare"
    BY <1>2, <1>3, <2>1 DEF Made, Imported
  <2>2. CASE Ask(r).kind = "update"
    BY <1>2, <1>3, <2>2 DEF Made
  <2>3. CASE Ask(r).kind = "create"
    BY <1>2, <1>3, <2>3 DEF Made
  <2>4. QED
    BY <2>1, <2>2, <2>3
<1>8. CASE Ask(r).kind # "create"
  BY <1>2, <1>5, <1>6, <1>7, <1>8
<1>9. CASE Ask(r).kind = "create"
  <2>1. PICK made : made = [row EXCEPT !.image = image] /\ made = Made(r)
    BY <1>7, <1>9
  <2>2. made \in Cocktail /\ made.owner = u /\ made.parent = t /\ made.public = public /\ ~made.deleted /\ made.image = image
    BY <1>4, <1>5, <1>6, <2>1 DEF Cocktail
  <2>3. QED
    BY <1>2, <1>9, <2>1, <2>2
<1>10. QED
  BY <1>8, <1>9

\* The tables where only cocktails change.
LEMMA RowsChange ==
  ASSUME Typed, FavsBelong, ScoresBelong, UNCHANGED <<users, favs, ratings>>, cocktails' \in [Slots -> Cocktail \cup {Null}]
  PROVE  Tables' /\ FavsBelong' /\ ScoresBelong'
  BY DEF Typed, Tables, Scored, FavsBelong, ScoresBelong

LEMMA FreshIsUnnamed ==
  ASSUME NEW c \in Slots, Fresh(c)
  PROVE  Unnamed(c)
<1>1. c \in 1..c
  BY DEF Slots
<1>2. QED
  BY <1>1 DEF Fresh, Unnamed

LEMMA InsertHandles ==
  ASSUME Typed, FavsBelong, ScoresBelong, NEW r \in Requests, Insert(r)
  PROVE  LibraryStep(r)
<1>1. /\ RunShape /\ Tables /\ Copies(r)
  BY AskedOf DEF Typed
<1>2. /\ Moves(r) /\ Ask(r).kind \in {"create", "update", "prepare"} /\ UNCHANGED <<scene, users, favs, ratings>>
      /\ runs[r].pc = "insert" /\ Ask(r).on \in Things \cup {Null}
  BY <1>1, InsertDoes DEF Insert, Copies
<1>3. Goes(r) /\ Ask(r)' = Ask(r)
  BY <1>2, RunningGoes, SameAsks
<1>4. CASE Ask(r).user \notin users
  <2>1. To(r, "failed") /\ UNCHANGED <<cocktails, photo>>
    BY <1>4 DEF Insert
  <2>2. runs'[r].pc = "failed" /\ runs'[r].c = runs[r].c
    BY <1>1, <1>2, <2>1, ToStep DEF Lands, Place, Talking
  <2>3. Idles(r) /\ Minds(r)
    BY <1>2, <2>1, <2>2 DEF Idles, Working, Keeping, Rating, Importing, Minds
  <2>4. QED
    BY <1>2, <1>3, <2>1, <2>2, <2>3, TablesSame, IdleLeaves DEF tables
<1>5. CASE Ask(r).user \in users
  <2>1. PICK c \in Slots :
          /\ Fresh(c) /\ cocktails' = [cocktails EXCEPT ![c] = Made(r)]
          /\ photo' = IF Ask(r).kind = "prepare" /\ Ask(r).picture THEN [photo EXCEPT ![r] = "full"] ELSE photo
          /\ Go(r, [runs[r] EXCEPT !.c = c, !.pc = IF Made(r).parent \in Externals THEN "favorite" ELSE "done"])
    BY <1>5 DEF Insert
  <2>2. PICK row \in Cocktail :
          /\ row = Made(r) /\ row.owner = Ask(r).user /\ row.parent = Ask(r).on /\ ~row.deleted /\ row # Null
          /\ Ask(r).kind = "create" => row.public = Ask(r).public /\ row.image = Uploaded(r)
    BY <1>2, MadeOf, TypesAssumption
  <2>3. runs'[r].c = c /\ runs'[r].pc = IF Ask(r).on \in Externals THEN "favorite" ELSE "done"
    <3>1. PICK pc : pc = IF Ask(r).on \in Externals THEN "favorite" ELSE "done"
      OBVIOUS
    <3>2. PICK q : q = [runs[r] EXCEPT !.c = c, !.pc = pc] /\ Go(r, q)
      BY <2>1, <2>2, <3>1
    <3>3. q.pc = pc /\ q.c = c
      BY <1>1, <3>2 DEF RunShape, Fits
    <3>4. QED
      BY <1>1, <3>1, <3>2, <3>3 DEF Go, RunShape
  <2>4. Copies(r)'
    BY <1>2, <1>3, <2>3 DEF Copies, Holds, Keeping, Rating, Importing
  <2>5. Unnamed(c)
    BY <2>1, FreshIsUnnamed
  <2>6. cocktails'[c] = row /\ \A d \in Slots \ {c} : cocktails'[d] = cocktails[d]
    BY <1>1, <2>1, <2>2 DEF Tables
  <2>7. Makes(r, c)
    BY <1>2, <1>5, <2>2, <2>3, <2>5, <2>6 DEF Makes
  <2>8. \A d \in Slots : Alters(r, d)
    BY <2>6, <2>7 DEF Alters
  <2>9. cocktails' \in [Slots -> Cocktail \cup {Null}]
    BY <1>1, <2>1, <2>2 DEF Tables
  <2>10. Minds(r)
    BY <1>2, <2>1, <2>3, <2>5, <2>7 DEF Minds
  <2>11. Learns(r) /\ Ours(r)'
    BY <1>2, <1>3, <2>3 DEF Learns, Copy, Ours, Copying, Keeping, Rating
  <2>12. QED
    BY <1>2, <1>3, <2>4, <2>8, <2>9, <2>10, <2>11, RowsChange DEF LibraryStep, Erases
<1>6. QED
  BY <1>4, <1>5

LEMMA SaveCocktailHandles ==
  ASSUME Typed, FavsBelong, ScoresBelong, NEW r \in Requests, SaveCocktail(r)
  PROVE  LibraryStep(r)
<1>1. RunShape /\ Tables
  BY DEF Typed
<1>2. /\ Ask(r).kind = "save" /\ runs[r].pc = "names" /\ UNCHANGED <<scene, users, favs, ratings>> /\ photo' = photo
  BY DEF SaveCocktail, At, Keep, pictures
<1>3. Moves(r) /\ Goes(r)
  BY <1>1, <1>2, SaveCocktailDoes, RunningGoes
<1>4. ASSUME runs'[r].pc \in {"failed", "mark"}
      PROVE  Idles(r) /\ Minds(r)
  BY <1>2, <1>4 DEF Idles, Working, Keeping, Rating, Importing, Minds
<1>5. CASE Ask(r).user \notin users
  <2>1. To(r, "failed") /\ UNCHANGED cocktails
    BY <1>5 DEF SaveCocktail
  <2>2. runs'[r].pc = "failed"
    BY <1>1, <1>2, <2>1, ToStep DEF Lands, Place, Talking
  <2>3. QED
    BY <1>2, <1>3, <1>4, <2>1, <2>2, TablesSame, IdleLeaves DEF tables
<1>6. CASE Ask(r).user \in users
  <2>1. PICK c \in Slots : /\ Fresh(c) /\ cocktails' = [cocktails EXCEPT ![c] = Row(Ask(r).user, FALSE, Null, "own")]
                           /\ Go(r, [runs[r] EXCEPT !.pc = "mark", !.c = c])
    BY <1>6 DEF SaveCocktail
  <2>2. PICK row, public, u, t, content : /\ row = Row(u, public, t, content) /\ u = Ask(r).user /\ public = FALSE
                                          /\ t = Null /\ content = "own"
    OBVIOUS
  <2>3. row \in Cocktail /\ row.owner = Ask(r).user /\ row.parent = Null /\ ~row.deleted /\ row # Null
    <3>1. public \in BOOLEAN /\ u \in Users /\ t \in Things \cup {Null} /\ content \in Contents
      BY <2>2, AskedOf DEF Contents
    <3>2. row \in Cocktail /\ row.owner = u /\ row.parent = t
      BY <2>2, <3>1, RowIsCocktail
    <3>3. ~row.deleted
      BY <2>2 DEF Row
    <3>4. QED
      BY <2>2, <3>2, <3>3, TypesAssumption
  <2>4. PICK q : q = [runs[r] EXCEPT !.pc = "mark", !.c = c] /\ Go(r, q)
    BY <2>1
  <2>5. q.pc = "mark" /\ q.c = c
    BY <1>1, <2>4 DEF RunShape, Fits
  <2>6. runs'[r].pc = "mark" /\ runs'[r].c = c
    BY <1>1, <2>4, <2>5 DEF Go, RunShape
  <2>7. cocktails'[c] = row /\ \A d \in Slots \ {c} : cocktails'[d] = cocktails[d]
    BY <1>1, <2>1, <2>2 DEF Tables
  <2>8. Makes(r, c)
    <3>1. Unnamed(c)
      BY <2>1, FreshIsUnnamed
    <3>2. QED
      BY <1>2, <1>6, <2>3, <2>6, <2>7, <3>1 DEF Makes
  <2>9. \A d \in Slots : Alters(r, d)
    BY <2>7, <2>8 DEF Alters
  <2>10. cocktails' \in [Slots -> Cocktail \cup {Null}]
    BY <1>1, <2>1, <2>2, <2>3 DEF Tables
  <2>11. QED
    BY <1>2, <1>3, <1>4, <2>6, <2>9, <2>10, RowsChange, IdleHandles
<1>7. QED
  BY <1>5, <1>6

\* A row that was read is saved.
LEMMA SaveRowHandles ==
  ASSUME Typed, FavsBelong, ScoresBelong, NEW r \in Requests, runs[r].pc = "save", Ask(r).kind \in {"update", "remove"},
         UNCHANGED <<scene, users, favs, ratings, photo>>, NEW row \in Cocktail, SaveRow(r, row),
         NEW image, NEW deleted, SameRow(row, [runs[r].row EXCEPT !.image = image, !.deleted = deleted]),
         IF Ask(r).kind = "remove" THEN image = runs[r].row.image /\ deleted = TRUE
         ELSE image = (IF Ask(r).picture THEN r ELSE Shown(runs[r].c)) /\ deleted = runs[r].row.deleted
  PROVE  LibraryStep(r)
<1>1. RunShape /\ Tables /\ Copies(r) /\ Goes(r)
  BY AskedOf, RunningGoes DEF Typed
<1>2. PICK c \in Slots : c = runs[r].c /\ runs[r].row \in Cocktail
  BY <1>1 DEF Copies, Holds, Keeping
<1>3. /\ Moves(r) /\ runs'[r].c = c
      /\ \/ runs'[r].pc = "done" /\ cocktails' = [cocktails EXCEPT ![c] = row]
         \/ runs'[r].pc = "failed" /\ cocktails' = cocktails
  BY <1>1, <1>2, SaveRowDoes
<1>4. Idles(r) /\ Minds(r)
  BY <1>3 DEF Idles, Working, Keeping, Rating, Importing, Minds
<1>5. CASE cocktails' = cocktails
  BY <1>1, <1>3, <1>4, <1>5, TablesSame, IdleLeaves DEF tables
<1>6. CASE cocktails' # cocktails
  <2>1. row.owner = runs[r].row.owner /\ row # Null
    BY <1>2, TypesAssumption DEF SameRow, Cocktail
  <2>2. row.owner \in users \cup {Null}
    <3>1. CASE row.owner \notin users \cup {Null}
      BY <1>6, <3>1 DEF SaveRow
    <3>2. QED
      BY <3>1
  <2>3. runs'[r].pc = "done" /\ cocktails'[c] = row /\ \A d \in Slots \ {c} : cocktails'[d] = cocktails[d]
    BY <1>1, <1>3, <1>6 DEF Tables
  <2>4. Saves(r, c)
    BY <1>2, <1>3, <2>1, <2>2, <2>3 DEF Saves
  <2>5. \A d \in Slots : Alters(r, d)
    BY <2>3, <2>4 DEF Alters
  <2>6. cocktails' \in [Slots -> Cocktail \cup {Null}]
    BY <1>1, <1>3 DEF Tables
  <2>7. QED
    BY <1>1, <1>3, <1>4, <2>3, <2>5, <2>6, RowsChange, IdleHandles
<1>7. QED
  BY <1>5, <1>6

LEMMA RecipeSavesHandle ==
  ASSUME Typed, FavsBelong, ScoresBelong, NEW r \in Requests, UpdateSave(r) \/ RemoveSave(r)
  PROVE  LibraryStep(r)
<1>1. /\ runs[r].pc = "save" /\ UNCHANGED <<scene, users, favs, ratings, photo>>
      /\ Ask(r).content \in Contents /\ r \in Nat /\ Tables
  BY AskedOf DEF UpdateSave, RemoveSave, At, Beside, Typed
<1>2. PICK c \in Slots : c = runs[r].c /\ runs[r].row \in Cocktail
  BY <1>1, AskedOf DEF Copies, Holds, Keeping
<1>3. CASE UpdateSave(r)
  <2>1. PICK content \in Contents, image \in Nat \cup {Null} :
          content = Ask(r).content /\ image = IF Ask(r).picture THEN r ELSE Shown(c)
    <3>1. Shown(c) \in Nat \cup {Null}
      BY <1>1 DEF Shown, Tables, Cocktail
    <3>2. QED
      BY <1>1, <3>1
  <2>2. PICK row : row = [runs[r].row EXCEPT !.content = content, !.image = image]
    OBVIOUS
  <2>3. SaveRow(r, row) /\ Ask(r).kind = "update"
    BY <1>2, <1>3, <2>1, <2>2 DEF UpdateSave, At
  <2>4. PICK deleted : deleted = runs[r].row.deleted
    OBVIOUS
  <2>5. row \in Cocktail /\ SameRow(row, [runs[r].row EXCEPT !.image = image, !.deleted = deleted])
    BY <1>2, <2>2, <2>4 DEF Cocktail, SameRow
  <2>6. QED
    BY <1>1, <1>2, <2>1, <2>3, <2>4, <2>5, SaveRowHandles
<1>4. CASE RemoveSave(r)
  <2>1. PICK row : row = [runs[r].row EXCEPT !.deleted = TRUE] /\ SaveRow(r, row) /\ Ask(r).kind = "remove"
    BY <1>4 DEF RemoveSave, At
  <2>2. PICK image, deleted : image = runs[r].row.image /\ deleted = TRUE
    OBVIOUS
  <2>3. row \in Cocktail /\ SameRow(row, [runs[r].row EXCEPT !.image = image, !.deleted = deleted])
    BY <1>2, <2>1, <2>2 DEF Cocktail, SameRow
  <2>4. QED
    BY <1>1, <2>1, <2>2, <2>3, SaveRowHandles
<1>5. QED
  BY <1>3, <1>4

\* A cocktail goes, with its favorites and ratings.
LEMMA DropTables ==
  ASSUME Typed, FavsBelong, ScoresBelong, UNCHANGED users, NEW c, Drop(c)
  PROVE  Tables' /\ FavsBelong' /\ ScoresBelong' /\ \A d \in Slots \ {c} : cocktails'[d] = cocktails[d]
<1>1. Tables
  BY DEF Typed
<1>2. /\ cocktails' = [cocktails EXCEPT ![c] = Null]
      /\ favs' = [i \in FavIds |-> IF favs[i] # Null /\ favs[i].on = c THEN Null ELSE favs[i]]
      /\ ratings' = [k \in DOMAIN ratings |-> IF k[2] = c THEN Null ELSE ratings[k]]
  BY DEF Drop
<1>3. cocktails' \in [Slots -> Cocktail \cup {Null}] /\ \A d \in Slots \ {c} : cocktails'[d] = cocktails[d]
  BY <1>1, <1>2 DEF Tables
<1>4. favs' \in [FavIds -> Favorite \cup {Null}] /\ FavsBelong'
  BY <1>1, <1>2 DEF Tables, FavsBelong
<1>5. Scored' /\ \A k \in Users \X Things : ratings'[k] \in {ratings[k], Null}
  BY <1>1, <1>2 DEF Tables, Scored
<1>6. ScoresBelong'
  BY <1>5 DEF ScoresBelong
<1>7. QED
  BY <1>3, <1>4, <1>5, <1>6 DEF Tables

LEMMA ResolveHandles ==
  ASSUME Typed, FavsBelong, ScoresBelong, NEW r \in Requests, Resolve(r)
  PROVE  LibraryStep(r)
<1>1. /\ RunShape /\ Tables /\ UNCHANGED <<scene, users, photo>> /\ runs[r].pc = "drop-cocktail" /\ Ask(r).kind = "resolve"
      /\ disk' = Without(runs[r].row.image)
  BY DEF Typed, Resolve, Beside, At
<1>2. Moves(r) /\ runs'[r].pc \in {"done", "failed"} /\ Goes(r)
  BY <1>1, ResolveDoes, RunningGoes
<1>3. Idles(r) /\ Minds(r)
  BY <1>1, <1>2 DEF Idles, Working, Keeping, Rating, Importing, Minds
<1>4. CASE UNCHANGED <<cocktails, favs, ratings>>
  BY <1>1, <1>2, <1>3, <1>4, TablesSame, IdleLeaves DEF tables
<1>5. CASE Drop(runs[r].c)
  <2>1. PICK c : c = runs[r].c /\ Drop(c)
    BY <1>5
  <2>2. Tables' /\ FavsBelong' /\ ScoresBelong' /\ \A d \in Slots \ {c} : cocktails'[d] = cocktails[d]
    BY <1>1, <2>1, DropTables
  <2>3. ASSUME c \in Slots
        PROVE  Drops(r, c)
    <3>1. cocktails'[c] = Null
      BY <1>1, <2>1, <2>3 DEF Drop, Tables
    <3>2. PICK row : row = runs[r].row /\ Copy(r, c, row)
      BY <1>1, <2>1 DEF Copy, Copying
    <3>3. QED
      BY <1>1, <3>1, <3>2 DEF Drops
  <2>4. \A d \in Slots : Alters(r, d)
    BY <2>2, <2>3 DEF Alters
  <2>5. QED
    BY <1>1, <1>2, <1>3, <2>2, <2>4, IdleHandles
<1>6. QED
  BY <1>4, <1>5 DEF Resolve

\* A step that changes favorites only.
LEMMA FavsChange ==
  ASSUME Typed, ScoresBelong, UNCHANGED <<users, cocktails, ratings>>, favs' \in [FavIds -> Favorite \cup {Null}],
         FavsBelong'
  PROVE  Tables' /\ FavsBelong' /\ ScoresBelong'
  BY DEF Typed, Tables, Scored, ScoresBelong

LEMMA FavoritesHandle ==
  ASSUME Typed, FavsBelong, ScoresBelong, NEW r \in Requests, FavoriteCheck(r) \/ FavoriteInsert(r)
  PROVE  LibraryStep(r)
<1>1. /\ RunShape /\ Tables /\ Copies(r) /\ UNCHANGED <<scene, users, cocktails, ratings, photo>>
  BY AskedOf DEF Typed, FavoriteCheck, FavoriteInsert, Keep, tables, pictures
<1>2. Moves(r) /\ Ask(r).kind = "favorite" /\ Ask(r)' = Ask(r) /\ Goes(r)
  BY <1>1, AsideDoes, SameAsks, StartsGoes, RunningGoes DEF Aside, FavoriteCheck, FavoriteInsert, Starts, At
<1>3. ASSUME NEW pc \in {"refused", "failed", "done", "insert-favorite"}, To(r, pc)
      PROVE  runs'[r].pc = pc
  BY <1>1, <1>2, <1>3, ToStep DEF Lands, Place, Talking
<1>4. Minds(r)
  BY <1>1, <1>2 DEF Minds
<1>5. CASE FavoriteCheck(r)
  <2>1. \/ To(r, "refused")
        \/ To(r, "insert-favorite") /\ Ask(r).on \in Things
    BY <1>5 DEF FavoriteCheck, Live, Things
  <2>2. Idles(r) /\ runs'[r].pc # "drop-cocktail"
    BY <1>2, <1>3, <2>1 DEF Idles, Working, Keeping, Rating, Importing
  <2>3. favs' = favs
    BY <1>5 DEF FavoriteCheck, Keep, tables
  <2>4. QED
    BY <1>1, <1>2, <1>4, <2>2, <2>3, TablesSame, IdleLeaves DEF tables
<1>6. CASE FavoriteInsert(r)
  <2>1. runs[r].pc = "insert-favorite" /\ (To(r, "failed") \/ To(r, "done"))
    BY <1>6 DEF FavoriteInsert, At
  <2>2. runs'[r].pc \in {"failed", "done"}
    BY <1>3, <2>1
  <2>3. Idles(r)
    BY <1>2, <2>2 DEF Idles, Working, Keeping, Rating, Importing
  <2>4. CASE UNCHANGED favs
    BY <1>1, <1>2, <1>4, <2>2, <2>3, <2>4, TablesSame, IdleLeaves DEF tables
  <2>5. CASE ~UNCHANGED favs
    <3>1. PICK row : row = [user |-> Ask(r).user, on |-> Ask(r).on]
      OBVIOUS
    <3>2. PICK i \in FavIds : favs' = [favs EXCEPT ![i] = row] /\ Ask(r).user \in users
      BY <1>6, <2>5, <3>1 DEF FavoriteInsert
    <3>3. row \in Favorite /\ row.user = Ask(r).user
      BY <1>1, <2>1, <3>1, AskedOf DEF Copies, Favorite
    <3>4. favs' \in [FavIds -> Favorite \cup {Null}] /\ favs'[i] = row /\ \A k \in FavIds \ {i} : favs'[k] = favs[k]
      BY <1>1, <3>2, <3>3 DEF Tables
    <3>5. FavsBelong'
      BY <1>1, <3>2, <3>3, <3>4 DEF FavsBelong
    <3>6. QED
      BY <1>1, <1>2, <1>4, <2>2, <2>3, <3>4, <3>5, FavsChange, IdleLeaves
  <2>6. QED
    BY <2>4, <2>5
<1>7. QED
  BY <1>5, <1>6

\* What a favorite is where it is one of a user for a thing.
LEMMA OfIs ==
  ASSUME NEW u \in Users, NEW on \in Things, NEW i \in Of(u, on)
  PROVE  i \in FavIds /\ favs[i] # Null /\ favs[i].user = u /\ favs[i].on = on
<1>1. PICK row : i \in FavIds /\ row = [user |-> u, on |-> on] /\ favs[i] = row
  BY DEF Of
<1>2. row \in Favorite
  BY <1>1 DEF Favorite
<1>3. QED
  BY <1>1, <1>2, TypesAssumption

LEMMA UnfavoritesHandle ==
  ASSUME Typed, FavsBelong, ScoresBelong, NEW r \in Requests, UnfavoriteRead(r) \/ UnfavoriteDrop(r)
  PROVE  LibraryStep(r)
<1>1. /\ RunShape /\ Tables /\ Copies(r) /\ UNCHANGED <<scene, users, cocktails, ratings, photo>>
  BY AskedOf DEF Typed, UnfavoriteRead, UnfavoriteDrop, Keep, tables, pictures
<1>2. Ask(r).kind = "unfavorite" /\ Goes(r)
  BY StartsGoes, RunningGoes DEF UnfavoriteRead, UnfavoriteDrop, Starts, At
<1>3. Moves(r) /\ Ask(r)' = Ask(r) /\ Ask(r).on \in Things /\ Ask(r).user \in Users
  BY <1>1, <1>2, AsideDoes, SameAsks, AskedOf DEF Aside
<1>4. Minds(r)
  BY <1>1, <1>2 DEF Minds
<1>5. ASSUME NEW pc \in {"refused", "done"}, To(r, pc)
      PROVE  runs'[r].pc = pc /\ Idles(r)
  <2>1. runs'[r].pc = pc
    BY <1>1, <1>2, <1>5, ToStep DEF Lands, Place, Talking
  <2>2. QED
    BY <1>2, <2>1 DEF Idles, Working, Keeping, Rating, Importing
<1>6. CASE UnfavoriteRead(r)
  <2>1. favs' = favs
    BY <1>6 DEF UnfavoriteRead, Keep, tables
  <2>2. Tables' /\ FavsBelong' /\ ScoresBelong'
    BY <1>1, <2>1, TablesSame DEF tables
  <2>3. CASE To(r, "refused")
    BY <1>1, <1>2, <1>3, <1>4, <1>5, <2>2, <2>3, IdleLeaves
  <2>4. CASE ~To(r, "refused")
    <3>1. PICK i \in Of(Ask(r).user, Ask(r).on) : Go(r, [Idle EXCEPT !.pc = "drop", !.fav = i])
      BY <1>6, <2>4 DEF UnfavoriteRead
    <3>2. PICK q : q = [Idle EXCEPT !.pc = "drop", !.fav = i] /\ Go(r, q)
      BY <3>1
    <3>3. q.pc = "drop" /\ q.fav = i
      BY <3>2 DEF Idle
    <3>4. runs'[r].pc = "drop" /\ runs'[r].fav = i /\ i \in FavIds
      BY <1>1, <1>3, <3>2, <3>3, OfIs DEF Go, RunShape
    <3>5. Copies(r)'
      BY <1>2, <1>3, <3>4 DEF Copies, Holds, Keeping, Rating, Importing
    <3>6. runs'[r].pc \notin Copying
      BY <3>4 DEF Copying, Keeping, Rating
    <3>7. QED
      BY <1>1, <1>2, <1>3, <1>4, <2>2, <3>5, <3>6, WorkLeaves
  <2>5. QED
    BY <2>3, <2>4
<1>7. CASE UnfavoriteDrop(r)
  <2>1. PICK i \in FavIds : i = runs[r].fav /\ favs' = [favs EXCEPT ![i] = Null]
    BY <1>1, <1>7 DEF UnfavoriteDrop, At, Copies
  <2>2. runs'[r].pc = "done" /\ Idles(r)
    BY <1>5, <1>7 DEF UnfavoriteDrop
  <2>3. favs' \in [FavIds -> Favorite \cup {Null}] /\ FavsBelong'
    BY <1>1, <2>1 DEF Tables, FavsBelong
  <2>4. QED
    BY <1>1, <1>2, <1>3, <1>4, <2>2, <2>3, FavsChange, IdleLeaves
<1>8. QED
  BY <1>6, <1>7

LEMMA ListReadHandles ==
  ASSUME Typed, FavsBelong, ScoresBelong, NEW r \in Requests, ListRead(r)
  PROVE  LibraryStep(r)
<1>1. /\ RunShape /\ Tables /\ UNCHANGED <<scene, users, cocktails, favs, ratings, photo>>
  BY DEF Typed, ListRead, Keep, tables, pictures
<1>2. Moves(r) /\ Ask(r).kind = "list" /\ Ask(r)' = Ask(r) /\ Goes(r)
  BY <1>1, AsideDoes, SameAsks, StartsGoes DEF Aside, ListRead, Starts, At
<1>3. PICK rest : /\ rest = {i \in FavIds : favs[i] # Null /\ favs[i].user = Ask(r).user /\ favs[i].on \in Externals}
                  /\ Go(r, [Idle EXCEPT !.pc = "save-back", !.rest = rest, !.row = favs])
  BY DEF ListRead
<1>4. PICK q : q = [Idle EXCEPT !.pc = "save-back", !.rest = rest, !.row = favs] /\ Go(r, q)
  BY <1>3
<1>5. q.pc = "save-back" /\ q.rest = rest /\ q.row = favs
  BY <1>4 DEF Idle
<1>6. runs'[r].pc = "save-back" /\ runs'[r].rest = rest /\ runs'[r].row = favs
  BY <1>1, <1>4, <1>5 DEF Go, RunShape
<1>7. \A i \in rest : i \in FavIds /\ favs[i] \in [user : {Ask(r).user}, on : Externals]
  BY <1>1, <1>3 DEF Tables, Favorite
<1>8. Copies(r)'
  BY <1>2, <1>6, <1>7 DEF Copies, Holds, Keeping, Rating, Importing
<1>9. runs'[r].pc \notin Copying /\ Minds(r)
  BY <1>1, <1>2, <1>6 DEF Copying, Keeping, Rating, Minds
<1>10. QED
  BY <1>1, <1>2, <1>8, <1>9, TablesSame, WorkLeaves DEF tables

LEMMA ListSaveHandles ==
  ASSUME Typed, FavsBelong, ScoresBelong, NEW r \in Requests, ListSave(r)
  PROVE  LibraryStep(r)
<1>1. RunShape /\ Tables /\ Copies(r) /\ UNCHANGED <<scene, users, cocktails, ratings, photo>>
  BY AskedOf DEF Typed, ListSave, Keep, pictures
<1>2. At(r, "list", "save-back") /\ To(r, "done")
  BY DEF ListSave
<1>3. Moves(r) /\ Ask(r).kind = "list" /\ runs[r].pc = "save-back" /\ runs'[r].pc = "done" /\ Goes(r)
  BY <1>1, <1>2, ToStep, RunningGoes DEF At, Lands, Place, Talking
<1>4. Idles(r) /\ Minds(r)
  BY <1>1, <1>3 DEF Idles, Working, Keeping, Rating, Importing, Minds
<1>5. CASE favs' = favs
  BY <1>1, <1>3, <1>4, <1>5, TablesSame, IdleLeaves DEF tables
<1>6. CASE favs' # favs
  <2>1. favs' = [i \in FavIds |-> IF i \notin runs[r].rest THEN favs[i]
                                  ELSE IF favs[i] = Null THEN [runs[r].row[i] EXCEPT !.user = Null]
                                  ELSE [user |-> favs[i].user, on |-> runs[r].row[i].on]]
    BY <1>6 DEF ListSave
  <2>2. ASSUME NEW i \in FavIds, i \in runs[r].rest
        PROVE  favs'[i] \in Favorite /\ favs'[i].user \in users \cup {Null}
    <3>1. PICK row : row = runs[r].row[i] /\ row \in [user : {Ask(r).user}, on : Externals]
      BY <1>1, <1>3, <2>2 DEF Copies
    <3>2. row.on \in Things
      BY <3>1 DEF Things
    <3>3. CASE favs[i] = Null
      <4>1. favs'[i] = [row EXCEPT !.user = Null]
        BY <2>1, <2>2, <3>1, <3>3
      <4>2. QED
        BY <3>1, <3>2, <4>1 DEF Favorite
    <3>4. CASE favs[i] # Null
      <4>1. favs'[i] = [user |-> favs[i].user, on |-> row.on]
        BY <2>1, <2>2, <3>1, <3>4
      <4>2. favs[i].user \in Users \cup {Null} /\ favs[i].user \in users \cup {Null}
        BY <1>1, <3>4 DEF Tables, Favorite, FavsBelong
      <4>3. QED
        BY <3>2, <4>1, <4>2 DEF Favorite
    <3>5. QED
      BY <3>3, <3>4
  <2>3. \A i \in FavIds : i \notin runs[r].rest => favs'[i] = favs[i]
    BY <2>1
  <2>4. favs' \in [FavIds -> Favorite \cup {Null}]
    <3>1. \A i \in FavIds : favs'[i] \in Favorite \cup {Null}
      BY <1>1, <2>2, <2>3 DEF Tables
    <3>2. QED
      BY <2>1, <3>1
  <2>5. FavsBelong'
    BY <1>1, <2>2, <2>3 DEF FavsBelong
  <2>6. QED
    BY <1>1, <1>3, <1>4, <2>4, <2>5, FavsChange, IdleLeaves
<1>7. QED
  BY <1>5, <1>6

\* A fork or an import has the favorite moved to it.
LEMMA MigratesHandle ==
  ASSUME Typed, NEW r \in Requests, UNCHANGED <<scene, users, cocktails, photo>>, Moves(r),
         runs[r].pc \in Importing, Ask(r).kind \in {"create", "update", "prepare"}, runs'[r].c = runs[r].c,
         \/ runs'[r].pc \in {"done", "favorite", "rating"}
         \/ runs'[r].pc = "repoint" /\ runs'[r].fav \in FavIds,
         Tables', FavsBelong', ScoresBelong'
  PROVE  LibraryStep(r)
<1>1. Ask(r)' = Ask(r) /\ Ask(r).on \in Externals /\ Ask(r).on \in Things /\ runs[r].c \in Slots /\ Goes(r)
  BY SameAsks, AskedOf, RunningGoes DEF Copies, Things, Importing
<1>2. Copies(r)'
  BY <1>1 DEF Copies, Holds, Keeping, Rating, Importing
<1>3. Minds(r)
  BY DEF Minds, Importing
<1>4. runs'[r].pc \notin Copying
  BY DEF Copying, Keeping, Rating
<1>5. QED
  BY <1>1, <1>2, <1>3, <1>4, WorkLeaves

LEMMA MigrateReadHandles ==
  ASSUME Typed, FavsBelong, ScoresBelong, NEW r \in Requests, MigrateRead(r)
  PROVE  LibraryStep(r)
<1>1. RunShape /\ Tables /\ Copies(r) /\ UNCHANGED <<scene, users, cocktails, favs, ratings, photo>>
  BY AskedOf DEF Typed, MigrateRead, Keep, tables, pictures
<1>2. /\ Moves(r) /\ Ask(r).kind \in {"create", "update", "prepare"} /\ runs'[r].c = runs[r].c
      /\ runs[r].pc = "favorite" /\ runs[r].pc \in Importing
  BY <1>1, MigrationDoes DEF MigrateRead, Importing
<1>3. Tables' /\ FavsBelong' /\ ScoresBelong'
  BY <1>1, TablesSame DEF tables
<1>4. CASE Go(r, [runs[r] EXCEPT !.pc = Migrated(r), !.round = 2])
  <2>1. PICK pc \in {"done", "favorite", "rating"} : Go(r, [runs[r] EXCEPT !.pc = pc, !.round = 2])
    BY <1>4 DEF Migrated
  <2>2. runs'[r].pc = pc
    BY <1>1, <1>2, <2>1, RoundStep DEF Lands, Place, Talking
  <2>3. QED
    BY <1>1, <1>2, <1>3, <2>2, MigratesHandle
<1>5. CASE ~Go(r, [runs[r] EXCEPT !.pc = Migrated(r), !.round = 2])
  <2>1. PICK i \in FavIds : Go(r, [runs[r] EXCEPT !.pc = "repoint", !.fav = i])
    BY <1>5 DEF MigrateRead, Of
  <2>2. runs'[r].pc = "repoint" /\ runs'[r].fav = i
    BY <1>1, <1>2, <2>1, FavNextStep DEF Lands, Place, Talking
  <2>3. QED
    BY <1>1, <1>2, <1>3, <2>2, MigratesHandle
<1>6. QED
  BY <1>4, <1>5

LEMMA MigrateSaveHandles ==
  ASSUME Typed, FavsBelong, ScoresBelong, NEW r \in Requests, MigrateSave(r)
  PROVE  LibraryStep(r)
<1>1. RunShape /\ Tables /\ Copies(r) /\ UNCHANGED <<scene, users, cocktails, ratings, photo>>
  BY AskedOf DEF Typed, MigrateSave, Keep, pictures
<1>2. /\ Moves(r) /\ Ask(r).kind \in {"create", "update", "prepare"} /\ runs'[r].c = runs[r].c
      /\ runs[r].pc = "repoint" /\ runs[r].pc \in Importing
  BY <1>1, MigrationDoes DEF MigrateSave, Importing
<1>3. runs'[r].pc \in {"done", "favorite", "rating"}
  <2>1. PICK pc \in {"done", "favorite", "rating"} : Go(r, [runs[r] EXCEPT !.pc = pc, !.round = 2])
    BY DEF MigrateSave, Migrated
  <2>2. QED
    BY <1>1, <1>2, <2>1, RoundStep DEF Lands, Place, Talking
<1>4. PICK u \in Users, c \in Slots, i \in FavIds :
        u = Ask(r).user /\ c = runs[r].c /\ i = runs[r].fav
  BY <1>1, <1>2, AskedOf DEF Copies, Importing
<1>5. CASE favs' = favs
  BY <1>1, <1>2, <1>3, <1>5, TablesSame, MigratesHandle DEF tables
<1>6. CASE favs' # favs
  <2>1. PICK row : row = [user |-> u, on |-> c]
    OBVIOUS
  <2>2. row \in Favorite /\ row.user = u
    BY <2>1 DEF Favorite, Things
  <2>3. u \in users
    BY <1>4, <1>6, <2>1, <2>2 DEF MigrateSave, Repointed
  <2>4. PICK to \in Favorite \cup {Null} :
          favs' = [favs EXCEPT ![i] = to] /\ (to # Null => to.user \in users \cup {Null})
    <3>1. CASE Clash(i, row)
      <4>1. favs' = [favs EXCEPT ![i] = Null]
        BY <1>4, <1>6, <2>1, <2>2, <3>1 DEF MigrateSave, Repointed
      <4>2. QED
        BY <4>1
    <3>2. CASE ~Clash(i, row) /\ favs[i] # Null
      <4>1. favs' = [favs EXCEPT ![i] = row]
        BY <1>4, <1>6, <2>1, <3>2 DEF MigrateSave, Repointed
      <4>2. QED
        BY <2>2, <2>3, <4>1
    <3>3. CASE ~Clash(i, row) /\ favs[i] = Null
      <4>1. PICK to : to = [row EXCEPT !.user = Null]
        OBVIOUS
      <4>2. favs' = [favs EXCEPT ![i] = to]
        BY <1>4, <1>6, <2>1, <3>3, <4>1 DEF MigrateSave, Repointed
      <4>3. to \in Favorite /\ to.user = Null
        BY <2>2, <4>1 DEF Favorite
      <4>4. QED
        BY <4>2, <4>3
    <3>4. QED
      BY <3>1, <3>2, <3>3
  <2>5. favs' \in [FavIds -> Favorite \cup {Null}] /\ FavsBelong'
    BY <1>1, <2>4 DEF Tables, FavsBelong
  <2>6. QED
    BY <1>1, <1>2, <1>3, <2>5, FavsChange, MigratesHandle
<1>7. QED
  BY <1>5, <1>6

\* A step that changes scores only.
LEMMA ScoresChange ==
  ASSUME Typed, FavsBelong, UNCHANGED <<users, cocktails, favs>>, Scored'
  PROVE  Tables' /\ FavsBelong'
  BY DEF Typed, Tables, FavsBelong

LEMMA MovesHandle ==
  ASSUME Typed, FavsBelong, ScoresBelong, NEW r \in Requests, MoveRead(r) \/ MoveFind(r) \/ MoveStore(r) \/ MoveRemove(r)
  PROVE  LibraryStep(r)
<1>1. RunShape /\ Tables /\ Copies(r) /\ Scored /\ UNCHANGED <<scene, users, cocktails, favs, photo>>
  BY AskedOf DEF Typed, MoveRead, MoveFind, MoveStore, MoveRemove, Keep, tables, pictures, Tables
<1>2. Moves(r) /\ Ask(r).kind = "prepare" /\ Ask(r)' = Ask(r) /\ runs'[r].c = runs[r].c /\ Goes(r)
  BY <1>1, MigrationDoes, SameAsks, RunningGoes DEF MoveRead, MoveFind, MoveStore, MoveRemove, At
<1>3. Minds(r)
  BY <1>1, <1>2 DEF Minds
<1>4. ASSUME NEW pc \in {"done", "move-remove"}, To(r, pc), Scored', ScoresBelong'
      PROVE  LibraryStep(r)
  <2>1. runs'[r].pc = pc
    BY <1>1, <1>2, <1>4, ToStep DEF Lands, Place, Talking
  <2>2. Idles(r)
    BY <1>2, <2>1 DEF Idles, Working, Keeping, Rating, Importing
  <2>3. QED
    BY <1>1, <1>2, <1>3, <1>4, <2>1, <2>2, ScoresChange, IdleLeaves
<1>5. ASSUME runs'[r].pc \in {"move-find", "move-store"}, runs'[r].row \in 1..5, ratings' = ratings
      PROVE  LibraryStep(r)
  <2>1. Copies(r)'
    BY <1>2, <1>5 DEF Copies, Holds, Keeping, Rating, Importing
  <2>2. runs'[r].pc \notin Copying
    BY <1>5 DEF Copying, Keeping, Rating
  <2>3. QED
    BY <1>1, <1>2, <1>3, <1>5, <2>1, <2>2, TablesSame, WorkLeaves DEF tables
<1>6. CASE MoveRead(r)
  <2>1. runs[r].pc = "rating" /\ ratings' = ratings
    BY <1>6 DEF MoveRead, At, Keep, tables
  <2>2. PICK score : score = ratings[<<Ask(r).user, Ask(r).on>>]
    OBVIOUS
  <2>3. score \in 1..5 \cup {Null}
    BY <1>1, <2>1, <2>2, AskedOf DEF Copies, Scored
  <2>4. PICK pc \in {"done", "move-find"} : pc = (IF score = Null THEN "done" ELSE "move-find")
    OBVIOUS
  <2>5. runs'[r].pc = pc /\ runs'[r].row = score
    <3>1. Go(r, [runs[r] EXCEPT !.row = score, !.pc = pc])
      BY <1>6, <2>2, <2>4 DEF MoveRead
    <3>2. QED
      BY <1>1, <1>2, <3>1, RowStep DEF Lands, Place, Talking
  <2>6. CASE score = Null
    <3>1. Idles(r) /\ runs'[r].pc # "drop-cocktail"
      BY <1>2, <2>4, <2>5, <2>6 DEF Idles, Working, Keeping, Rating, Importing
    <3>2. QED
      BY <1>1, <1>2, <1>3, <2>1, <3>1, TablesSame, IdleLeaves DEF tables
  <2>7. CASE score # Null
    BY <1>5, <2>1, <2>3, <2>4, <2>5, <2>7
  <2>8. QED
    BY <2>6, <2>7
<1>7. CASE MoveFind(r)
  <2>1. runs[r].pc = "move-find" /\ ratings' = ratings
    BY <1>7 DEF MoveFind, At, Keep, tables
  <2>2. PICK score : Go(r, [runs[r] EXCEPT !.fav = score, !.pc = "move-store"])
    BY <1>7 DEF MoveFind
  <2>3. runs'[r].pc = "move-store" /\ runs'[r].row = runs[r].row
    BY <1>1, <1>2, <2>2, FavStep DEF Lands, Place, Talking
  <2>4. QED
    BY <1>1, <1>5, <2>1, <2>3 DEF Copies
<1>8. CASE MoveStore(r)
  <2>1. runs[r].row \in 1..5
    BY <1>1, <1>8 DEF MoveStore, At, Copies
  <2>2. \/ ratings' = ratings
        \/ Ask(r).user \in users /\ ratings' = [ratings EXCEPT ![<<Ask(r).user, runs[r].c>>] = runs[r].row]
    BY <1>8 DEF MoveStore
  <2>3. Scored'
    BY <1>1, <2>1, <2>2 DEF Scored
  <2>4. ScoresBelong'
    <3>1. \A u \in Users, t \in Things : ratings'[<<u, t>>] # ratings[<<u, t>>] => u = Ask(r).user /\ u \in users
      BY <1>1, <2>2 DEF Scored
    <3>2. QED
      BY <1>1, <3>1 DEF ScoresBelong
  <2>5. To(r, "move-remove") \/ To(r, "done")
    BY <1>8 DEF MoveStore
  <2>6. QED
    BY <1>4, <2>3, <2>4, <2>5
<1>9. CASE MoveRemove(r)
  <2>1. To(r, "done") /\ ratings' = [ratings EXCEPT ![<<Ask(r).user, Ask(r).on>>] = Null]
    BY <1>9 DEF MoveRemove
  <2>2. Scored' /\ ScoresBelong'
    BY <1>1, <2>1 DEF Scored, ScoresBelong
  <2>3. QED
    BY <1>4, <2>1, <2>2
<1>10. QED
  BY <1>6, <1>7, <1>8, <1>9

LEMMA RatesHandle ==
  ASSUME Typed, FavsBelong, ScoresBelong, NEW r \in Requests, RateFind(r) \/ RateStore(r) \/ RateAverage(r)
  PROVE  LibraryStep(r)
<1>1. RunShape /\ Tables /\ Scored /\ Copies(r)
  BY AskedOf DEF Typed, Tables
<1>2. UNCHANGED <<scene, users, cocktails, favs, photo>>
  BY DEF RateFind, RateStore, RateAverage, Keep, tables, pictures
<1>3. /\ Moves(r) /\ Ask(r).kind = "rate" /\ runs[r].pc \in Rating /\ runs'[r].c = runs[r].c
      /\ runs'[r].pc \in Rating \cup {"done", "failed"} /\ Averaged(r, runs'[r].row) /\ Goes(r)
  BY <1>1, RatingDoes, RunningGoes DEF Rating
<1>4. Ask(r).score \in 1..5 /\ runs[r].c \in Things /\ Ask(r).user \in Users
  BY <1>1, <1>3, AskedOf DEF Copies
<1>5. \/ ratings' = ratings
      \/ /\ ratings' = [ratings EXCEPT ![<<Ask(r).user, runs[r].c>>] = Ask(r).score]
         /\ Ask(r).user \in users \/ ratings[<<Ask(r).user, runs[r].c>>] # Null
  BY DEF RateFind, RateStore, RateAverage, Keep, tables
<1>6. Scored'
  BY <1>1, <1>4, <1>5 DEF Scored
<1>7. ScoresBelong'
  <2>1. \A u \in Users, t \in Things : ratings'[<<u, t>>] # ratings[<<u, t>>] => u = Ask(r).user /\ u \in users
    BY <1>1, <1>4, <1>5 DEF Scored, ScoresBelong
  <2>2. QED
    BY <1>2, <2>1 DEF ScoresBelong
<1>8. ASSUME runs[r].c \in Slots
      PROVE  runs'[r].row \in Cocktail /\ SameRow(runs'[r].row, runs[r].row)
  <2>1. runs[r].row \in Cocktail
    BY <1>1, <1>3, <1>8 DEF Copies, Holds, Keeping
  <2>2. PICK avg \in UNION {[set -> 1..5] : set \in SUBSET Users} : avg = Average(runs[r].c)
    BY <1>1, <1>8, AverageFits DEF Things
  <2>3. runs'[r].row = runs[r].row \/ runs'[r].row = [runs[r].row EXCEPT !.avg = avg]
    BY <1>3, <1>8, <2>2 DEF Averaged
  <2>4. QED
    BY <2>1, <2>3 DEF Cocktail, SameRow
<1>9. CASE runs'[r].pc \in Rating
  BY <1>1, <1>2, <1>3, <1>6, <1>7, <1>8, <1>9, HoldHandles DEF Keeping, Rating
<1>10. CASE runs'[r].pc \in {"done", "failed"}
  <2>1. Idles(r) /\ Minds(r)
    BY <1>2, <1>3, <1>10 DEF Idles, Working, Keeping, Rating, Importing, Minds
  <2>2. QED
    BY <1>1, <1>2, <1>3, <1>6, <1>7, <1>10, <2>1, ScoresChange, IdleLeaves
<1>11. QED
  BY <1>3, <1>9, <1>10

LEMMA RateTargetHandles ==
  ASSUME Typed, FavsBelong, ScoresBelong, NEW r \in Requests, RateTarget(r)
  PROVE  LibraryStep(r)
<1>1. UNCHANGED <<scene, tables, photo>> /\ RunShape /\ Tables
  BY DEF RateTarget, Keep, pictures, Typed
<1>2. Tables' /\ FavsBelong' /\ ScoresBelong' /\ UNCHANGED <<users, cocktails>>
  BY <1>1, TablesSame DEF tables
<1>3. /\ Moves(r) /\ Ask(r).kind = "rate" /\ runs[r].pc = "new"
      /\ \/ /\ runs'[r].pc = "rate-find"
            /\ \/ runs'[r].c \in Slots /\ cocktails[runs'[r].c] # Null /\ runs'[r].row = cocktails[runs'[r].c]
               \/ runs'[r].c \in Externals
         \/ runs'[r].pc = "refused"
  BY <1>1, RateTargetDoes
<1>4. Goes(r) /\ Minds(r) /\ Ask(r)' = Ask(r)
  BY <1>1, <1>3, StartsGoes, SameAsks DEF RateTarget, Minds
<1>5. Externals \cap Slots = {}
  BY TypesAssumption DEF Slots
<1>6. CASE runs'[r].pc = "refused"
  <2>1. Idles(r)
    BY <1>3, <1>6 DEF Idles, Working, Keeping, Rating, Importing
  <2>2. QED
    BY <1>1, <1>2, <1>3, <1>4, <1>6, <2>1, IdleLeaves
<1>7. CASE runs'[r].pc = "rate-find" /\ runs'[r].c \in Slots
  <2>1. PICK c \in Slots : c = runs'[r].c /\ cocktails[c] # Null /\ runs'[r].row = cocktails[c]
    BY <1>3, <1>5, <1>7
  <2>2. QED
    BY <1>1, <1>3, <1>4, <1>7, <2>1, ReadHandles
<1>8. CASE runs'[r].pc = "rate-find" /\ runs'[r].c \in Externals
  <2>1. Copies(r)' /\ Ours(r)'
    BY <1>3, <1>4, <1>5, <1>8 DEF Copies, Holds, Rating, Importing, Things, Ours
  <2>2. Learns(r)
    BY <1>3, <1>4, <1>5, <1>8 DEF Learns, Copy
  <2>3. QED
    BY <1>1, <1>2, <1>3, <1>4, <2>1, <2>2 DEF LibraryStep, Erases, Alters
<1>9. QED
  BY <1>3, <1>6, <1>7, <1>8

LEMMA RateSaveHandles ==
  ASSUME Typed, FavsBelong, ScoresBelong, NEW r \in Requests, RateSave(r)
  PROVE  LibraryStep(r)
<1>1. RunShape /\ Tables /\ Copies(r) /\ UNCHANGED <<scene, users, favs, ratings, photo>>
  BY AskedOf DEF Typed, RateSave, pictures
<1>2. At(r, "rate", "rate-save") /\ To(r, "done")
  BY DEF RateSave
<1>3. Moves(r) /\ Ask(r).kind = "rate" /\ runs[r].pc = "rate-save" /\ runs'[r].pc = "done" /\ runs'[r].c = runs[r].c /\ Goes(r)
  BY <1>1, <1>2, ToStep, RunningGoes DEF At, Lands, Place, Talking
<1>4. Idles(r) /\ Minds(r)
  BY <1>1, <1>3 DEF Idles, Working, Keeping, Rating, Importing, Minds
<1>5. CASE cocktails' = cocktails
  BY <1>1, <1>3, <1>4, <1>5, TablesSame, IdleLeaves DEF tables
<1>6. CASE cocktails' # cocktails
  <2>1. PICK c \in Slots : c = runs[r].c /\ runs[r].row \in Cocktail
    BY <1>1, <1>2, <1>6 DEF RateSave, At, Copies, Holds, Keeping, Rating, Things
  <2>2. PICK owner : owner = IF cocktails[c] = Null THEN Null ELSE cocktails[c].owner
    OBVIOUS
  <2>3. PICK row : row = [runs[r].row EXCEPT !.owner = owner] /\ cocktails' = [cocktails EXCEPT ![c] = row]
    BY <1>6, <2>1, <2>2 DEF RateSave
  <2>4. owner \in Users \cup {Null}
    BY <1>1, <2>2 DEF Tables, Cocktail
  <2>5. row \in Cocktail /\ row # Null
    BY <2>1, <2>3, <2>4, TypesAssumption DEF Cocktail
  <2>6. cocktails'[c] = row /\ (\A d \in Slots \ {c} : cocktails'[d] = cocktails[d])
        /\ cocktails' \in [Slots -> Cocktail \cup {Null}]
    BY <1>1, <2>3, <2>5 DEF Tables
  <2>7. SameRow(cocktails'[c], [runs[r].row EXCEPT !.owner = owner])
    BY <2>3, <2>6 DEF SameRow
  <2>8. Weighs(r, c)
    BY <1>3, <2>1, <2>2, <2>5, <2>6, <2>7 DEF Weighs
  <2>9. \A d \in Slots : Alters(r, d)
    BY <2>6, <2>8 DEF Alters
  <2>10. QED
    BY <1>1, <1>3, <1>4, <2>6, <2>9, RowsChange, IdleHandles
<1>7. QED
  BY <1>5, <1>6

LEMMA EraseReadHandles ==
  ASSUME Typed, FavsBelong, ScoresBelong, NEW r \in Requests, EraseRead(r)
  PROVE  LibraryStep(r)
<1>1. RunShape /\ Tables /\ UNCHANGED <<scene, tables, photo>>
  BY DEF Typed, EraseRead, Keep, pictures
<1>2. /\ Moves(r) /\ Ask(r).kind = "erase" /\ Ask(r)' = Ask(r) /\ runs[r].pc = "new"
      /\ runs'[r].pc = "erase-cocktails" /\ runs'[r].row = cocktails
      /\ runs'[r].rest = Owned(Ask(r).user)
  BY <1>1, EraseReadDoes, SameAsks DEF Owned
<1>3. \A c \in runs'[r].rest : c \in Slots /\ cocktails[c] # Null /\ runs'[r].row[c] \in Cocktail
  BY <1>1, <1>2 DEF Tables, Owned
<1>4. Copies(r)' /\ Ours(r)'
  BY <1>2, <1>3 DEF Copies, Holds, Keeping, Rating, Importing, Ours
<1>5. Goes(r) /\ Minds(r)
  BY <1>1, <1>2, StartsGoes DEF EraseRead, Minds
<1>6. UNCHANGED <<cocktails, users>>
  BY <1>1 DEF tables
<1>7. Learns(r)
  BY <1>2, <1>3, <1>6 DEF Learns, Copy, Copying, Keeping, Rating
<1>8. QED
  BY <1>1, <1>2, <1>4, <1>5, <1>6, <1>7, TablesSame DEF LibraryStep, Erases, Alters

LEMMA EraseOneHandles ==
  ASSUME Typed, FavsBelong, ScoresBelong, NEW r \in Requests, EraseOne(r)
  PROVE  LibraryStep(r)
<1>1. RunShape /\ Tables /\ Copies(r) /\ UNCHANGED <<scene, users, photo>>
  BY AskedOf DEF Typed, EraseOne, Beside
<1>2. PICK c \in runs[r].rest : AnonymizeOrRemove(r, c) /\ Go(r, [runs[r] EXCEPT !.rest = @ \ {c}])
  BY DEF EraseOne
<1>3. PICK rest : rest = runs[r].rest \ {c} /\ Go(r, [runs[r] EXCEPT !.rest = rest])
  BY <1>1, <1>2 DEF RunShape, Fits
<1>4. /\ Moves(r) /\ Ask(r).kind = "erase" /\ runs[r].pc = "erase-cocktails" /\ runs'[r].pc = "erase-cocktails"
      /\ Ask(r)' = Ask(r) /\ runs'[r].row = runs[r].row /\ runs'[r].rest = runs[r].rest \ {c}
  BY <1>1, <1>3, EraseOneDoes, RestStep, SameAsks
<1>5. Copies(r)' /\ Ours(r)'
  BY <1>1, <1>4 DEF Copies, Holds, Keeping, Rating, Importing, Ours
<1>6. Goes(r) /\ Minds(r)
  BY <1>1, <1>4, RunningGoes DEF Minds
<1>7. Learns(r)
  <2>1. ASSUME NEW d \in Slots, NEW row, Copy(r, d, row)'
        PROVE  Copy(r, d, row) /\ SameRow(row, row)
    BY <1>4, <2>1 DEF Copy, Copying, Keeping, Rating, SameRow
  <2>2. QED
    BY <2>1 DEF Learns
<1>8. c \in Slots /\ runs[r].row[c] \in Cocktail /\ Copy(r, c, runs[r].row[c])
  BY <1>1, <1>4 DEF Copies, Copy
<1>9. ASSUME Frees(r, c) \/ Drops(r, c), Tables', FavsBelong', ScoresBelong',
             \A d \in Slots \ {c} : cocktails'[d] = cocktails[d]
      PROVE  LibraryStep(r)
  <2>1. \A d \in Slots : Alters(r, d)
    BY <1>9 DEF Alters
  <2>2. Erases(r)
    BY <1>1, <1>4, <1>9 DEF Erases
  <2>3. QED
    BY <1>1, <1>4, <1>5, <1>6, <1>7, <1>9, <2>1, <2>2 DEF LibraryStep
<1>10. CASE runs[r].row[c].public
  <2>1. cocktails' = [cocktails EXCEPT ![c] = [runs[r].row[c] EXCEPT !.owner = Null]] /\ UNCHANGED <<favs, ratings>>
    BY <1>2, <1>10 DEF AnonymizeOrRemove, Disown
  <2>2. PICK row : row = [runs[r].row[c] EXCEPT !.owner = Null] /\ cocktails' = [cocktails EXCEPT ![c] = row]
    BY <2>1
  <2>3. row \in Cocktail /\ row # Null
    BY <1>8, <2>2, TypesAssumption DEF Cocktail
  <2>4. cocktails'[c] = row /\ (\A d \in Slots \ {c} : cocktails'[d] = cocktails[d])
        /\ cocktails' \in [Slots -> Cocktail \cup {Null}]
    BY <1>1, <1>8, <2>2, <2>3 DEF Tables
  <2>5. SameRow(cocktails'[c], [runs[r].row[c] EXCEPT !.owner = Null])
    BY <2>2, <2>4 DEF SameRow
  <2>6. Frees(r, c)
    BY <1>4, <1>10, <2>3, <2>4, <2>5 DEF Frees
  <2>7. QED
    BY <1>1, <1>9, <2>1, <2>4, <2>6, RowsChange
<1>11. CASE ~runs[r].row[c].public
  <2>1. Drop(c) /\ disk' = Without(runs[r].row[c].image)
    BY <1>2, <1>11 DEF AnonymizeOrRemove
  <2>2. Tables' /\ FavsBelong' /\ ScoresBelong' /\ \A d \in Slots \ {c} : cocktails'[d] = cocktails[d]
    BY <1>1, <2>1, DropTables
  <2>3. cocktails'[c] = Null
    BY <1>1, <1>8, <2>1 DEF Drop, Tables
  <2>4. Drops(r, c)
    BY <1>4, <1>8, <2>1, <2>3 DEF Drops
  <2>5. QED
    BY <1>9, <2>2, <2>4
<1>12. QED
  BY <1>10, <1>11

LEMMA EndingHandles ==
  ASSUME Typed, FavsBelong, ScoresBelong, NEW r \in Requests, EraseData(r) \/ EraseUser(r)
  PROVE  LibraryStep(r)
<1>1. RunShape /\ Tables /\ Copies(r) /\ UNCHANGED <<scene, photo>>
  BY AskedOf DEF Typed, EraseData, EraseUser, Keep, pictures
<1>2. PICK u \in Users : u = Ask(r).user /\ u # Null
  BY AskedOf
<1>3. /\ Moves(r) /\ Ask(r).kind = "erase" /\ Ask(r)' = Ask(r) /\ Goes(r) /\ runs'[r].rest = runs[r].rest /\ runs'[r].row = runs[r].row
      /\ \/ EraseData(r) /\ runs[r].pc = "erase-cocktails" /\ runs'[r].pc = "erase-user"
         \/ EraseUser(r) /\ runs[r].pc = "erase-user" /\ runs'[r].pc = "done"
  BY <1>1, ToStep, SameAsks, RunningGoes DEF EraseData, EraseUser, At, Lands, Place, Talking
<1>4. Copies(r)' /\ Ours(r)' /\ Learns(r) /\ Minds(r)
  <2>1. Copies(r)' /\ Ours(r)'
    BY <1>1, <1>3 DEF Copies, Holds, Keeping, Rating, Importing, Ours
  <2>2. Learns(r) /\ Minds(r)
    BY <1>1, <1>3 DEF Learns, Minds, Copy, Copying, Keeping, Rating
  <2>3. QED
    BY <2>1, <2>2
<1>5. favs' = [i \in FavIds |-> IF favs[i] # Null /\ favs[i].user = u THEN Null ELSE favs[i]]
  BY <1>2 DEF EraseData, EraseUser
<1>6. favs' \in [FavIds -> Favorite \cup {Null}] /\ \A i \in FavIds : favs'[i] # Null => favs'[i] = favs[i] /\ favs[i].user # u
  BY <1>1, <1>5 DEF Tables
<1>7. CASE EraseData(r)
  <2>1. UNCHANGED <<users, cocktails, ratings>> /\ runs[r].rest = {} /\ runs'[r].pc = "erase-user" /\ runs[r].pc = "erase-cocktails"
    BY <1>3, <1>7 DEF EraseData, Keep, EraseUser, At
  <2>2. FavsBelong'
    BY <1>6, <2>1 DEF FavsBelong
  <2>3. Erases(r) /\ \A c \in Slots : Alters(r, c)
    BY <2>1 DEF Erases, Alters
  <2>4. QED
    BY <1>1, <1>3, <1>4, <1>6, <2>1, <2>2, <2>3, FavsChange DEF LibraryStep
<1>8. CASE EraseUser(r)
  <2>1. /\ users' = users \ {u} /\ runs[r].pc = "erase-user" /\ runs'[r].pc = "done"
        /\ ratings' = [k \in DOMAIN ratings |-> IF k[1] = u THEN Null ELSE ratings[k]]
        /\ cocktails' = [c \in Slots |-> IF cocktails[c] # Null /\ cocktails[c].owner = u
                                         THEN [cocktails[c] EXCEPT !.owner = Null] ELSE cocktails[c]]
    BY <1>2, <1>3, <1>8 DEF EraseUser, EraseData, At
  <2>2. FavsBelong'
    BY <1>6, <2>1 DEF FavsBelong
  <2>3. Scored' /\ ScoresBelong'
    BY <1>1, <2>1 DEF Tables, Scored, ScoresBelong
  <2>4. ASSUME NEW c \in Slots, cocktails[c] # Null, cocktails[c].owner = u
        PROVE  cocktails'[c] \in Cocktail /\ cocktails'[c].owner = Null /\ Leaves(r, c)
    <3>1. cocktails[c] \in Cocktail /\ cocktails'[c] = [cocktails[c] EXCEPT !.owner = Null]
      BY <1>1, <2>1, <2>4 DEF Tables
    <3>2. cocktails'[c] \in Cocktail /\ cocktails'[c] # Null /\ cocktails'[c].owner = Null
      BY <3>1, TypesAssumption DEF Cocktail
    <3>3. QED
      BY <1>2, <1>3, <2>1, <2>4, <3>1, <3>2 DEF Leaves, SameRow
  <2>5. ASSUME NEW c \in Slots, ~(cocktails[c] # Null /\ cocktails[c].owner = u)
        PROVE  cocktails'[c] = cocktails[c]
    BY <2>1, <2>5
  <2>6. \A c \in Slots : Alters(r, c) /\ cocktails'[c] \in Cocktail \cup {Null}
    BY <1>1, <2>4, <2>5 DEF Alters, Tables
  <2>7. cocktails' \in [Slots -> Cocktail \cup {Null}]
    BY <2>1, <2>6
  <2>8. Erases(r)
    BY <1>2, <2>1, <2>4, <2>5 DEF Erases
  <2>9. QED
    BY <1>1, <1>3, <1>4, <1>6, <2>2, <2>3, <2>6, <2>7, <2>8 DEF LibraryStep, Tables
<1>9. QED
  BY <1>7, <1>8

LEMMA TalkingHandles ==
  ASSUME QuotaInv, Typed, FavsBelong, ScoresBelong, NEW r \in Requests,
         \/ Generate(r) \/ ToolTurn(r) \/ ModelFails(r) \/ ModelAnswers(r) \/ Consume(r) \/ Compare(r) \/ Record(r)
         \/ SaveRead(r) \/ LookUp(r) \/ MakeName(r) \/ SaveMark(r) \/ Discard(r)
  PROVE  LibraryStep(r)
<1>1. UNCHANGED <<scene, tables, photo>>
  BY DEF Generate, ToolTurn, ModelFails, ModelAnswers, Consume, Compare, Record,
         SaveRead, LookUp, MakeName, SaveMark, Discard, Keep, pictures
<1>2. Tables' /\ FavsBelong' /\ ScoresBelong' /\ UNCHANGED <<users, cocktails>> /\ RunShape
  BY <1>1, TablesSame DEF tables, Typed
<1>3. /\ Moves(r) /\ Ask(r).kind \in {"generate", "regenerate", "save", "discard"}
      /\ runs'[r].pc \in Talking \cup {"look-up", "names"} \cup Ends
  <2>1. CASE SaveRead(r) \/ LookUp(r) \/ MakeName(r) \/ SaveMark(r) \/ Discard(r)
    <3>1. Ask(r).kind \in {"save", "discard"}
      BY <2>1 DEF SaveRead, LookUp, MakeName, SaveMark, Discard, Starts, At
    <3>2. QED
      BY <1>2, <2>1, <3>1, AsideDoes DEF Aside
  <2>2. CASE ~(SaveRead(r) \/ LookUp(r) \/ MakeName(r) \/ SaveMark(r) \/ Discard(r))
    BY <2>2, TalkKeepsShape DEF Ordering
  <2>3. QED
    BY <2>1, <2>2
<1>4. Idles(r) /\ Minds(r) /\ runs'[r].pc # "drop-cocktail"
  BY <1>1, <1>3 DEF Idles, Working, Keeping, Rating, Importing, Talking, Ends, Minds
<1>5. Goes(r)
  BY StartsGoes, RunningGoes DEF Generate, ToolTurn, ModelFails, ModelAnswers, Consume, Compare, Record,
         SaveRead, LookUp, MakeName, SaveMark, Discard, At
<1>6. QED
  BY <1>1, <1>2, <1>3, <1>4, <1>5, IdleLeaves

\* What the requests have come to that the erasure relies on: one that has not
\* begun knows nothing, a picture comes before the recipe it is for, an erasure ends
\* with the account, and the picture of an import is not for what a user creates.
Stages(r) ==
  /\ runs[r].pc = "new" => runs[r] = Idle
  /\ Ask(r).kind = "erase" => runs[r].pc \in {"new", "erase-cocktails", "erase-user", "done"}
  /\ Ask(r).kind = "erase" /\ runs[r].pc = "done" => Ask(r).user \notin users
  /\ Ask(r).kind = "create" /\ runs[r].pc \in {"insert", "favorite", "repoint", "done"} => photo[r] \in {"none", "saved"}
Created(r) == Ask(r).kind = "create" /\ runs[r].pc \in {"favorite", "repoint", "done"}
Untaken(r) == Ask(r).kind = "prepare" /\ photo[r] # "none" => \A s \in Requests : Created(s) => runs[s].c # runs[r].c
\* One thing at a time, of a user there is.
Alone == \A r, s \in Requests : Running(r) /\ Running(s) /\ Ask(r).user = Ask(s).user => r = s
Present == \A r \in Requests : Running(r) => Ask(r).user \in users
\* Nobody's private recipe is one that somebody rates.
Warded == \A c \in Slots : cocktails[c] # Null /\ cocktails[c].owner = Null /\ ~cocktails[c].public =>
  \E r \in Requests : Ask(r).kind = "rate" /\ runs[r].c = c
\* An erasure has all cocktails of the user before it, until it has none.
Emptied(r) == Ask(r).kind = "erase" =>
  /\ runs[r].pc = "erase-cocktails" => Owned(Ask(r).user) \subseteq runs[r].rest
  /\ runs[r].pc = "erase-user" => Owned(Ask(r).user) = {}
\* A private recipe whose picture is on the disk is its user's and shows it, for
\* everybody who has read it, and an erasure of that user has it before it.
Mark(row, r) == row.owner = Ask(r).user /\ ~row.public /\ row.image = r
Standing(r) ==
  /\ runs[r].c \in Slots /\ cocktails[runs[r].c] # Null /\ Mark(cocktails[runs[r].c], r)
  /\ \A s \in Requests : \A row : Copy(s, runs[r].c, row) => Mark(row, r)
  /\ \A s \in Requests : Ask(s).kind = "erase" /\ Ask(s).user = Ask(r).user /\ runs[s].pc # "new" =>
       runs[s].pc = "erase-cocktails" /\ runs[r].c \in runs[s].rest
Traceable(r) == Created(r) /\ ~Ask(r).public /\ ~Replaced(r) /\ \E f \in disk : f.pic = r
Traced(r) == Traceable(r) => Standing(r)
LibraryBooks == Typed /\ FavsBelong /\ ScoresBelong /\ RowsBelong
ErasureInv ==
  /\ LibraryBooks /\ \A r \in Requests : Stages(r) /\ Untaken(r)
  /\ scene.patient => Alone /\ Present /\ Warded /\ \A r \in Requests : Emptied(r) /\ Traced(r)

\* What a row says in which a few columns have been set.
LEMMA Relabel ==
  ASSUME NEW row \in Cocktail, NEW p, NEW x, NEW y
  PROVE  /\ SameRow(p, [row EXCEPT !.owner = x]) => p.owner = x /\ p.public = row.public /\ p.image = row.image
         /\ SameRow(p, [row EXCEPT !.image = x, !.deleted = y]) => p.owner = row.owner /\ p.public = row.public /\ p.image = x
  BY DEF SameRow, Cocktail

\* What has become of a row that a step has changed.
LEMMA Altered ==
  ASSUME Typed, NEW r \in Requests, LibraryStep(r), NEW c \in Slots, cocktails'[c] # Null, cocktails'[c] # cocktails[c]
  PROVE  \/ Makes(r, c)
         \/ /\ Ask(r).kind \in {"update", "remove"} /\ Copy(r, c, runs[r].row)
            /\ cocktails'[c].owner = Ask(r).user /\ cocktails'[c].owner = runs[r].row.owner
            /\ Ask(r).user \in users /\ cocktails'[c].public = runs[r].row.public
            /\ \/ cocktails'[c].image \in {runs[r].row.image, Shown(c)}
               \/ Ask(r).kind = "update" /\ Ask(r).picture /\ runs'[r].pc = "done" /\ runs'[r].c = c
         \/ /\ Ask(r).kind = "rate" /\ runs[r].c = c /\ runs'[r].c = c /\ Copy(r, c, runs[r].row)
            /\ cocktails'[c].public = runs[r].row.public /\ cocktails'[c].image = runs[r].row.image
            /\ cocktails'[c].owner = IF cocktails[c] = Null THEN Null ELSE cocktails[c].owner
         \/ /\ Ask(r).kind = "erase" /\ cocktails'[c].owner = Null
            /\ \E row : Copy(r, c, row) /\ row.public /\ cocktails'[c].public
         \/ /\ Ask(r).kind = "erase" /\ runs[r].pc = "erase-user" /\ cocktails'[c].owner = Null
            /\ cocktails[c] # Null /\ cocktails[c].owner = Ask(r).user
<1>1. Copies(r) /\ Ours(r) /\ Ask(r).user # Null /\ Tables
  BY AskedOf DEF Typed
<1>2. CASE Saves(r, c)
  <2>1. runs[r].row \in Cocktail /\ Copy(r, c, runs[r].row) /\ runs[r].row.owner = Ask(r).user
    BY <1>1, <1>2 DEF Saves, Copies, Holds, Keeping, Copy, Copying, Ours
  <2>2. PICK image, deleted : /\ SameRow(cocktails'[c], [runs[r].row EXCEPT !.image = image, !.deleted = deleted])
                              /\ IF Ask(r).kind = "remove" THEN image = runs[r].row.image
                                 ELSE image = (IF Ask(r).picture THEN r ELSE Shown(c))
    BY <1>2 DEF Saves
  <2>3. cocktails'[c].owner = runs[r].row.owner /\ cocktails'[c].public = runs[r].row.public /\ cocktails'[c].image = image
    BY <2>1, <2>2, Relabel
  <2>4. QED
    BY <1>1, <1>2, <2>1, <2>2, <2>3 DEF Saves
<1>3. CASE Weighs(r, c)
  <2>1. runs[r].row \in Cocktail /\ Copy(r, c, runs[r].row)
    BY <1>1, <1>3 DEF Weighs, Copies, Holds, Keeping, Rating, Copy, Copying
  <2>2. PICK owner : owner = IF cocktails[c] = Null THEN Null ELSE cocktails[c].owner
    OBVIOUS
  <2>3. SameRow(cocktails'[c], [runs[r].row EXCEPT !.owner = owner])
    BY <1>3, <2>2 DEF Weighs
  <2>4. cocktails'[c].owner = owner /\ cocktails'[c].public = runs[r].row.public /\ cocktails'[c].image = runs[r].row.image
    BY <2>1, <2>3, Relabel
  <2>5. QED
    BY <1>3, <2>1, <2>2, <2>4 DEF Weighs
<1>4. CASE Frees(r, c)
  <2>1. PICK row : row = runs[r].row[c]
    OBVIOUS
  <2>2. row \in Cocktail /\ Copy(r, c, row) /\ row.public
    BY <1>1, <1>4, <2>1 DEF Frees, Copies, Copy
  <2>3. cocktails'[c].owner = Null /\ cocktails'[c].public = row.public
    BY <1>4, <2>1, <2>2, Relabel DEF Frees
  <2>4. QED
    BY <1>4, <2>2, <2>3 DEF Frees
<1>5. CASE Leaves(r, c)
  <2>1. cocktails[c] \in Cocktail
    BY <1>1, <1>5 DEF Leaves, Tables
  <2>2. SameRow(cocktails'[c], [cocktails[c] EXCEPT !.owner = Null])
    BY <1>5 DEF Leaves
  <2>3. cocktails'[c].owner = Null
    BY <2>1, <2>2 DEF SameRow, Cocktail
  <2>4. QED
    BY <1>5, <2>3 DEF Leaves
<1>6. QED
  BY <1>2, <1>3, <1>4, <1>5 DEF LibraryStep, Alters, Drops

\* What each record keeps but the one of who steps.
LEMMA OthersKeep ==
  ASSUME NEW r \in Requests, LibraryStep(r)
  PROVE  /\ Requests' = Requests /\ (\A s : Ask(s)' = Ask(s)) /\ scene' = scene
         /\ \A s \in Requests \ {r} : runs'[s] = runs[s]
         /\ runs'[r].pc # "new" /\ users' \subseteq users
  BY SameAsks DEF LibraryStep, Moves, Lands, Erases

LEMMA BooksKeep ==
  ASSUME LibraryBooks, NEW r \in Requests, LibraryStep(r)
  PROVE  LibraryBooks'
<1>1. /\ Requests' = Requests /\ (\A s : Ask(s)' = Ask(s)) /\ scene' = scene
      /\ \A s \in Requests \ {r} : runs'[s] = runs[s]
      /\ users' \subseteq users
  BY OthersKeep
<1>2. RunShape'
  BY ShapeStays DEF LibraryBooks, Typed, LibraryStep
<1>3. ASSUME NEW s \in Requests
      PROVE  Copies(s)' /\ Ours(s)'
  <2>1. CASE s = r
    BY <2>1 DEF LibraryStep
  <2>2. CASE s # r
    <3>1. Copies(s)'
      BY <2>2, CopiesStay DEF LibraryBooks, Typed, LibraryStep
    <3>2. Ours(s)'
      BY <1>1, <2>2 DEF LibraryBooks, Typed, Ours
    <3>3. QED
      BY <3>1, <3>2
  <2>3. QED
    BY <2>1, <2>2
<1>4. Typed'
  BY <1>1, <1>2, <1>3 DEF LibraryBooks, Typed, LibraryStep
<1>5. ASSUME NEW c \in Slots, cocktails'[c] # Null, cocktails'[c].owner # Null
      PROVE  cocktails'[c].owner \in users'
  <2>1. users' = users \/ (Ask(r).kind = "erase" /\ users' = users \ {Ask(r).user} /\ cocktails'[c].owner # Ask(r).user)
    BY <1>5 DEF LibraryStep, Erases
  <2>2. cocktails'[c].owner \in users
    <3>1. CASE cocktails'[c] = cocktails[c]
      BY <1>5, <3>1 DEF LibraryBooks, RowsBelong
    <3>2. CASE cocktails'[c] # cocktails[c]
      BY <1>5, <3>2, Altered DEF LibraryBooks, RowsBelong, Makes
    <3>3. QED
      BY <3>1, <3>2
  <2>3. QED
    BY <2>1, <2>2
<1>6. RowsBelong'
  BY <1>5 DEF RowsBelong
<1>7. QED
  BY <1>4, <1>6 DEF LibraryBooks, LibraryStep

LEMMA StagesKeep ==
  ASSUME PicInv, ErasureInv, NEW r \in Requests, LibraryStep(r), TableStep(r)
  PROVE  \A s \in Requests : Stages(s)' /\ Untaken(s)'
<1>1. /\ Requests' = Requests /\ (\A s : Ask(s)' = Ask(s)) /\ scene' = scene
      /\ \A s \in Requests \ {r} : runs'[s] = runs[s]
      /\ runs'[r].pc # "new" /\ users' \subseteq users
  BY OthersKeep
<1>2. \A s \in Requests : photo'[s] = photo[s] \/ (s = r /\ photo' # photo)
  BY PastStays
<1>3. \A s \in Requests : Stages(s) /\ Untaken(s)
  BY DEF ErasureInv
<1>4. ASSUME NEW s \in Requests
      PROVE  Stages(s)'
  <2>1. CASE s # r
    BY <1>1, <1>2, <1>3, <2>1 DEF Stages
  <2>2. CASE s = r
    <3>1. Ask(r).kind = "erase" => /\ runs'[r].pc \in {"new", "erase-cocktails", "erase-user", "done"}
                                   /\ runs'[r].pc = "done" => Ask(r).user \notin users'
      BY DEF LibraryStep, Erases
    <3>2. ASSUME Ask(r).kind = "create", runs'[r].pc \in {"insert", "favorite", "repoint", "done"}
          PROVE  photo'[r] \in {"none", "saved"}
      <4>1. photo' = photo
        BY <3>2 DEF LibraryStep, Minds
      <4>2. runs[r].pc = "new" => photo[r] = "none"
        BY DEF PicInv, PhotoFits
      <4>3. QED
        BY <1>3, <3>2, <4>1, <4>2 DEF LibraryStep, Minds, Stages, Makes
    <3>3. QED
      BY <1>1, <2>2, <3>1, <3>2 DEF Stages
  <2>3. QED
    BY <2>1, <2>2
<1>5. ASSUME NEW s \in Requests, Ask(s).kind = "prepare", photo'[s] # "none", NEW x \in Requests, Created(x)'
      PROVE  runs'[x].c # runs'[s].c
  <2>1. x # s
    BY <1>1, <1>5 DEF Created
  <2>2. CASE r # s
    <3>1. photo[s] # "none" /\ runs'[s] = runs[s]
      BY <1>1, <1>2, <1>5, <2>2
    <3>2. CASE Created(x) /\ runs'[x].c = runs[x].c
      BY <1>3, <1>5, <3>1, <3>2 DEF Untaken
    <3>3. CASE ~(Created(x) /\ runs'[x].c = runs[x].c)
      <4>1. x = r /\ Ask(r).kind = "create" /\ runs'[r].pc \in {"favorite", "repoint", "done"}
        BY <1>1, <1>5, <3>3 DEF Created
      <4>2. runs'[r].c \in Slots /\ Unnamed(runs'[r].c)
        BY <3>3, <4>1 DEF LibraryStep, Minds, Makes, Created
      <4>3. QED
        BY <3>1, <4>1, <4>2 DEF Unnamed, Named
    <3>4. QED
      BY <3>2, <3>3
  <2>3. CASE r = s
    <3>1. runs'[x] = runs[x] /\ Created(x)
      BY <1>1, <1>5, <2>1, <2>3 DEF Created
    <3>2. CASE runs'[s].c \in Slots /\ Unnamed(runs'[s].c)
      BY <3>1, <3>2 DEF Unnamed, Named
    <3>3. CASE ~(runs'[s].c \in Slots /\ Unnamed(runs'[s].c))
      <4>1. runs'[r].pc # "upload"
        BY <1>5, <2>3 DEF LibraryStep, Moves, Lands, Place
      <4>2. photo' = photo
        BY <2>3, <3>3, <4>1 DEF LibraryStep, Minds
      <4>3. runs[s].pc # "new"
        BY <1>5, <4>2 DEF PicInv, PhotoFits
      <4>4. runs'[s].c = runs[s].c
        BY <1>5, <2>3, <3>3, <4>3 DEF LibraryStep, Minds
      <4>5. QED
        BY <1>3, <1>5, <3>1, <4>2, <4>4 DEF Untaken
    <3>4. QED
      BY <3>2, <3>3
  <2>4. QED
    BY <2>2, <2>3
<1>6. QED
  BY <1>1, <1>4, <1>5 DEF Untaken

LEMMA PatienceKeeps ==
  ASSUME PicInv, ErasureInv, scene.patient, NEW r \in Requests, LibraryStep(r)
  PROVE  Alone' /\ Present'
<1>1. /\ Requests' = Requests /\ (\A s : Ask(s)' = Ask(s)) /\ scene' = scene
      /\ \A s \in Requests \ {r} : runs'[s] = runs[s]
      /\ runs'[r].pc # "new" /\ users' \subseteq users
  BY OthersKeep
<1>2. \A s \in Requests \ {r} : Running(s)' <=> Running(s)
  BY <1>1 DEF Running
<1>3. Ask(r).user \in users /\ \A s \in Requests \ {r} : Running(s) => Ask(s).user # Ask(r).user
  BY DEF LibraryStep, Goes, ErasureInv, Alone, Present
<1>4. Alone'
  BY <1>1, <1>2, <1>3 DEF ErasureInv, Alone
<1>5. users' = users \/ (users' = users \ {Ask(r).user} /\ ~Running(r)')
  BY <1>1 DEF LibraryStep, Erases, Running, Ends
<1>6. Present'
  BY <1>1, <1>2, <1>3, <1>5 DEF ErasureInv, Present
<1>7. QED
  BY <1>4, <1>6

LEMMA EmptiedKeeps ==
  ASSUME PicInv, ErasureInv, scene.patient, NEW r \in Requests, LibraryStep(r), NEW s \in Requests
  PROVE  Emptied(s)'
<1>1. /\ Requests' = Requests /\ (\A q : Ask(q)' = Ask(q)) /\ scene' = scene
      /\ \A q \in Requests \ {r} : runs'[q] = runs[q]
      /\ runs'[r].pc # "new" /\ users' \subseteq users
  BY OthersKeep
<1>2. SUFFICES ASSUME Ask(s).kind = "erase", runs'[s].pc \in {"erase-cocktails", "erase-user"},
                      NEW c \in Slots, cocktails'[c] # Null, cocktails'[c].owner = Ask(s).user
               PROVE  runs'[s].pc = "erase-cocktails" /\ c \in runs'[s].rest
  BY <1>1 DEF Emptied, Owned
<1>3. Ask(s).user # Null
  BY AskedOf DEF ErasureInv, LibraryBooks
<1>4. CASE s # r
  <2>1. Running(s) /\ runs'[s] = runs[s]
    BY <1>1, <1>2, <1>4 DEF Running, Ends
  <2>2. Ask(r).user # Ask(s).user
    BY <1>4, <2>1 DEF LibraryStep, Goes, ErasureInv, Alone
  <2>3. cocktails[c] # Null /\ cocktails[c].owner = Ask(s).user
    <3>1. CASE cocktails'[c] = cocktails[c]
      BY <1>2, <3>1
    <3>2. CASE cocktails'[c] # cocktails[c]
      BY <1>2, <1>3, <2>2, <3>2, Altered DEF ErasureInv, LibraryBooks, Makes
    <3>3. QED
      BY <3>1, <3>2
  <2>4. QED
    BY <1>2, <2>1, <2>3 DEF ErasureInv, Emptied, Owned
<1>5. CASE s = r
  <2>1. cocktails'[c] = cocktails[c]
    BY <1>2, <1>3, <1>5, Altered DEF ErasureInv, LibraryBooks, Makes
  <2>2. c \in Owned(Ask(r).user)
    BY <1>2, <1>5, <2>1 DEF Owned
  <2>3. \A d : Frees(r, d) \/ Drops(r, d) => d # c
    <3>1. ASSUME Frees(r, c)
          PROVE  FALSE
      <4>1. runs[r].row[c] \in Cocktail
        BY <3>1, AskedOf DEF Frees, Copies, ErasureInv, LibraryBooks
      <4>2. cocktails'[c].owner = Null
        BY <3>1, <4>1, Relabel DEF Frees
      <4>3. QED
        BY <1>2, <1>3, <4>2
    <3>2. ~Drops(r, c)
      BY <1>2 DEF Drops
    <3>3. QED
      BY <3>1, <3>2
  <2>4. QED
    BY <1>2, <1>5, <2>2, <2>3 DEF LibraryStep, Erases, ErasureInv, Emptied
<1>6. QED
  BY <1>4, <1>5

LEMMA WardedKeeps ==
  ASSUME PicInv, ErasureInv, scene.patient, NEW r \in Requests, LibraryStep(r)
  PROVE  Warded'
<1>1. /\ Requests' = Requests /\ (\A q : Ask(q)' = Ask(q)) /\ scene' = scene
      /\ \A q \in Requests \ {r} : runs'[q] = runs[q]
  BY OthersKeep
<1>2. SUFFICES ASSUME NEW c \in Slots, cocktails'[c] # Null, cocktails'[c].owner = Null, ~cocktails'[c].public
               PROVE  \E s \in Requests : Ask(s).kind = "rate" /\ runs'[s].c = c
  BY <1>1 DEF Warded
<1>3. Ask(r).user # Null
  BY AskedOf DEF ErasureInv, LibraryBooks
<1>4. CASE cocktails'[c] = cocktails[c]
  <2>1. PICK s \in Requests : Ask(s).kind = "rate" /\ runs[s].c = c
    BY <1>2, <1>4 DEF ErasureInv, Warded
  <2>2. CASE s # r
    BY <1>1, <2>1, <2>2
  <2>3. CASE s = r
    <3>1. runs[r].pc # "new"
      <4>1. Idle.c = Null /\ c # Null
        BY NullAssumption DEF Idle, Slots
      <4>2. QED
        BY <2>1, <2>3, <4>1 DEF ErasureInv, Stages
    <3>2. QED
      BY <2>1, <2>3, <3>1 DEF LibraryStep, Minds
  <2>4. QED
    BY <2>2, <2>3
<1>5. CASE cocktails'[c] # cocktails[c]
  <2>1. CASE Ask(r).kind = "rate" /\ runs'[r].c = c
    BY <2>1
  <2>2. CASE Ask(r).kind = "erase" /\ runs[r].pc = "erase-user" /\ cocktails[c] # Null /\ cocktails[c].owner = Ask(r).user
    BY <2>2 DEF ErasureInv, Emptied, Owned
  <2>3. QED
    BY <1>2, <1>3, <1>5, <2>1, <2>2, Altered DEF ErasureInv, LibraryBooks, Makes
<1>6. QED
  BY <1>4, <1>5

\* What a picture was replaced with is what it stays.
LEMMA ReplacedStays ==
  ASSUME NEW r \in Requests, LibraryStep(r), NEW s \in Requests, runs'[s].c = runs[s].c, Replaced(s)
  PROVE  Replaced(s)'
<1>1. /\ Requests' = Requests /\ (\A q : Ask(q)' = Ask(q))
      /\ \A q \in Requests \ {r} : runs'[q] = runs[q]
  BY OthersKeep
<1>2. PICK q \in Requests : Ask(q).kind = "update" /\ Ask(q).picture /\ runs[q].pc = "done" /\ runs[q].c = runs[s].c
  BY DEF Replaced
<1>3. q # r
  BY <1>2 DEF LibraryStep, Goes, Running, Ends
<1>4. QED
  BY <1>1, <1>2, <1>3 DEF Replaced

\* A private recipe is made with its picture.
LEMMA CreatedTraced ==
  ASSUME PicInv, ErasureInv, scene.patient, NEW r \in Requests, LibraryStep(r), Traceable(r)',
         disk' \subseteq disk, NEW c \in Slots, runs'[r].c = c, Makes(r, c)
  PROVE  Standing(r)'
<1>1. /\ Requests' = Requests /\ (\A q : Ask(q)' = Ask(q))
      /\ \A q \in Requests \ {r} : runs'[q] = runs[q]
      /\ users' \subseteq users
  BY OthersKeep
<1>2. Ask(r).kind = "create" /\ ~Ask(r).public /\ runs[r].pc = "insert" /\ Ask(r).user \in users /\ Unnamed(c)
  BY <1>1 DEF Traceable, Created, Makes
<1>3. photo[r] = "saved"
  <2>1. photo[r] \in {"none", "saved"}
    BY <1>2 DEF ErasureInv, Stages
  <2>2. photo[r] # "none"
    BY DEF Traceable, PicInv, Absent
  <2>3. QED
    BY <2>1, <2>2
<1>4. cocktails'[c] # Null /\ Mark(cocktails'[c], r)
  BY <1>2, <1>3 DEF Makes, Mark, Uploaded
<1>5. ASSUME NEW s \in Requests, NEW row, Copy(s, c, row)'
      PROVE  FALSE
  <2>1. CASE s = r
    BY <1>1, <1>2, <1>5, <2>1 DEF Copy, Copying, Keeping, Rating, Traceable, Created
  <2>2. CASE s # r
    BY <1>1, <1>2, <1>5, <2>2 DEF Copy, Unnamed, Named
  <2>3. QED
    BY <2>1, <2>2
<1>6. ASSUME NEW s \in Requests, Ask(s).kind = "erase", Ask(s).user = Ask(r).user, runs'[s].pc # "new"
      PROVE  FALSE
  <2>1. s # r /\ runs'[s] = runs[s] /\ Running(r)
    BY <1>1, <1>2, <1>6 DEF Running, Ends
  <2>2. ~Running(s)
    BY <1>6, <2>1 DEF ErasureInv, Alone
  <2>3. runs[s].pc = "done"
    BY <1>6, <2>1, <2>2 DEF ErasureInv, Stages, Running, Ends
  <2>4. QED
    BY <1>2, <1>6, <2>3 DEF ErasureInv, Stages
<1>7. QED
  BY <1>1, <1>4, <1>5, <1>6 DEF Standing, Mark

\* What stands stands on.
LEMMA StandsOn ==
  ASSUME PicInv, ErasureInv, scene.patient, NEW r \in Requests, LibraryStep(r), NEW x \in Requests,
         Traceable(x)', runs'[x].c = runs[x].c, Standing(x)
  PROVE  Standing(x)'
<1>1. /\ Requests' = Requests /\ (\A q : Ask(q)' = Ask(q))
      /\ \A q \in Requests \ {r} : runs'[q] = runs[q]
  BY OthersKeep
<1>2. PICK c \in Slots : c = runs[x].c /\ cocktails[c] # Null /\ Mark(cocktails[c], x)
  BY DEF Standing
<1>3. \A s \in Requests : \A row : Copy(s, c, row) => Mark(row, x)
  BY <1>2 DEF Standing
<1>4. \A s \in Requests : Ask(s).kind = "erase" /\ Ask(s).user = Ask(x).user /\ runs[s].pc # "new" =>
        runs[s].pc = "erase-cocktails" /\ c \in runs[s].rest
  BY <1>2 DEF Standing
<1>5. ~Drops(r, c) /\ ~Frees(r, c)
  <2>1. ASSUME Drops(r, c)
        PROVE  FALSE
    <3>1. PICK row : Copy(r, c, row) /\ disk' = Without(row.image)
      BY <2>1 DEF Drops
    <3>2. row.image = x
      BY <1>3, <3>1 DEF Mark
    <3>3. QED
      BY <3>1, <3>2 DEF Traceable, Without
  <2>2. ASSUME Frees(r, c)
        PROVE  FALSE
    <3>1. Copy(r, c, runs[r].row[c]) /\ runs[r].row[c].public
      BY <2>2 DEF Frees, Copy
    <3>2. QED
      BY <1>3, <3>1 DEF Mark
  <2>3. QED
    BY <2>1, <2>2
<1>6. Ask(x).user # Null /\ Ask(x).user \in Users
  BY AskedOf DEF ErasureInv, LibraryBooks
<1>7. cocktails'[c] # Null /\ Mark(cocktails'[c], x)
  <2>1. CASE cocktails'[c] = cocktails[c]
    BY <1>2, <2>1
  <2>2. CASE cocktails'[c] # cocktails[c]
    <3>1. cocktails'[c] # Null
      BY <1>5, <2>2 DEF LibraryStep, Alters, Makes, Saves, Weighs, Leaves
    <3>2. ~Makes(r, c)
      BY <1>2 DEF Makes, Unnamed
    <3>3. ~(Ask(r).kind = "update" /\ Ask(r).picture /\ runs'[r].pc = "done" /\ runs'[r].c = c)
      BY <1>1, <1>2 DEF Traceable, Replaced
    <3>4. Shown(c) = x
      BY <1>2 DEF Shown, Mark
    <3>5. ~(Ask(r).kind = "erase" /\ runs[r].pc = "erase-user" /\ cocktails[c].owner = Ask(r).user)
      BY <1>2, <1>4 DEF Mark
    <3>6. \A row : Copy(r, c, row) => Mark(row, x)
      BY <1>3
    <3>7. \/ /\ Copy(r, c, runs[r].row) /\ cocktails'[c].owner = runs[r].row.owner
             /\ cocktails'[c].public = runs[r].row.public
             /\ cocktails'[c].image \in {runs[r].row.image, Shown(c)}
          \/ /\ Copy(r, c, runs[r].row) /\ cocktails'[c].owner = cocktails[c].owner
             /\ cocktails'[c].public = runs[r].row.public /\ cocktails'[c].image = runs[r].row.image
          \/ \E row : Copy(r, c, row) /\ row.public
      BY <1>2, <2>2, <3>1, <3>2, <3>3, <3>5, Altered DEF ErasureInv, LibraryBooks
    <3>8. QED
      BY <1>2, <3>1, <3>4, <3>6, <3>7 DEF Mark
  <2>3. QED
    BY <2>1, <2>2
<1>8. ASSUME NEW s \in Requests, NEW row, Copy(s, c, row)'
      PROVE  Mark(row, x)
  <2>1. CASE s # r
    <3>1. Copy(s, c, row)
      BY <1>1, <1>8, <2>1 DEF Copy
    <3>2. QED
      BY <1>3, <3>1
  <2>2. CASE s = r
    <3>1. \/ \E old : Copy(r, c, old) /\ SameRow(row, old)
          \/ row = cocktails[c]
      BY <1>8, <2>2 DEF LibraryStep, Learns
    <3>2. QED
      BY <1>2, <1>3, <3>1 DEF SameRow, Mark
  <2>3. QED
    BY <2>1, <2>2
<1>9. ASSUME NEW s \in Requests, Ask(s).kind = "erase", Ask(s).user = Ask(x).user, runs'[s].pc # "new"
      PROVE  runs'[s].pc = "erase-cocktails" /\ c \in runs'[s].rest
  <2>1. CASE s # r
    BY <1>1, <1>4, <1>9, <2>1
  <2>2. CASE s = r
    <3>1. c \in Owned(Ask(r).user)
      BY <1>2, <1>9, <2>2 DEF Owned, Mark
    <3>2. QED
      BY <1>4, <1>5, <1>9, <2>2, <3>1 DEF LibraryStep, Erases
  <2>3. QED
    BY <2>1, <2>2
<1>10. QED
  BY <1>1, <1>2, <1>7, <1>8, <1>9 DEF Standing, Mark

LEMMA TracedKeeps ==
  ASSUME PicInv, ErasureInv, scene.patient, NEW r \in Requests, LibraryStep(r), disk' \subseteq disk, NEW x \in Requests
  PROVE  Traced(x)'
<1>1. /\ Requests' = Requests /\ (\A q : Ask(q)' = Ask(q))
      /\ \A q \in Requests \ {r} : runs'[q] = runs[q]
  BY OthersKeep
<1>2. SUFFICES ASSUME Traceable(x)'
               PROVE  Standing(x)'
  BY DEF Traced
<1>3. CASE Created(x) /\ runs'[x].c = runs[x].c
  <2>1. ~Replaced(x)
    BY <1>2, <1>3, ReplacedStays DEF Traceable
  <2>2. Traceable(x)
    BY <1>1, <1>2, <1>3, <2>1 DEF Traceable
  <2>3. Standing(x)
    BY <2>2 DEF ErasureInv, Traced
  <2>4. QED
    BY <1>2, <1>3, <2>3, StandsOn
<1>4. CASE ~(Created(x) /\ runs'[x].c = runs[x].c)
  <2>1. x = r /\ Ask(r).kind = "create" /\ runs'[r].pc \in {"favorite", "repoint", "done"}
    BY <1>1, <1>2, <1>4 DEF Traceable, Created
  <2>2. runs'[r].c \in Slots /\ Makes(r, runs'[r].c)
    BY <1>4, <2>1 DEF LibraryStep, Minds, Created
  <2>3. QED
    BY <1>2, <2>1, <2>2, CreatedTraced
<1>5. QED
  BY <1>3, <1>4

LEMMA LibraryStepErases ==
  ASSUME PicInv, ErasureInv, NEW r \in Requests, LibraryStep(r), TableStep(r)
  PROVE  ErasureInv'
<1>1. Requests' = Requests /\ scene' = scene /\ disk' \subseteq disk
  BY OthersKeep, DiskStays
<1>2. LibraryBooks'
  BY BooksKeep DEF ErasureInv
<1>3. QED
  BY <1>1, <1>2, StagesKeep, PatienceKeeps, EmptiedKeeps, WardedKeeps, TracedKeeps DEF ErasureInv

\* What changes no row but for the picture of one that no request has created, and
\* brings no file but of a picture that is being stored, leaves the erasure alone.
LEMMA StillErases ==
  ASSUME ErasureInv, UNCHANGED <<scene, users, favs, ratings, runs>>,
         cocktails' \in [Slots -> Cocktail \cup {Null}],
         \A c \in Slots : /\ cocktails'[c] = Null <=> cocktails[c] = Null
                          /\ cocktails'[c].owner = cocktails[c].owner /\ cocktails'[c].public = cocktails[c].public,
         \A s \in Requests : Created(s) /\ runs[s].c \in Slots => cocktails'[runs[s].c].image = cocktails[runs[s].c].image,
         \A p \in Requests : \/ photo'[p] = photo[p] \/ photo[p] \in {"full", "thumb"}
                             \/ photo[p] = "saved" /\ Ask(p).kind = "prepare",
         \A f \in disk' : (\E g \in disk : g.pic = f.pic) \/ photo[f.pic] \in {"full", "thumb"}
  PROVE  ErasureInv'
<1>1. Requests' = Requests /\ (\A s : Ask(s)' = Ask(s))
  BY SameAsks
<1>2. LibraryBooks'
  <2>1. Tables'
    BY DEF ErasureInv, LibraryBooks, Typed, Tables, Scored
  <2>2. ASSUME NEW s \in Requests
        PROVE  Copies(s)' /\ Ours(s)'
    BY <1>1 DEF ErasureInv, LibraryBooks, Typed, Copies, Holds, Ours
  <2>3. RunShape'
    BY <1>1 DEF ErasureInv, LibraryBooks, Typed, RunShape
  <2>4. FavsBelong' /\ ScoresBelong' /\ RowsBelong'
    BY DEF ErasureInv, LibraryBooks, FavsBelong, ScoresBelong, RowsBelong
  <2>5. QED
    BY <1>1, <2>1, <2>2, <2>3, <2>4 DEF ErasureInv, LibraryBooks, Typed
<1>3. ASSUME NEW s \in Requests
      PROVE  Stages(s)' /\ (Created(s)' <=> Created(s))
  BY <1>1 DEF ErasureInv, Stages, Created
<1>4. ASSUME NEW s \in Requests
      PROVE  Untaken(s)'
  BY <1>1, <1>3 DEF ErasureInv, Untaken
<1>5. ASSUME scene.patient
      PROVE  Alone' /\ Present' /\ Warded' /\ \A s \in Requests : Emptied(s)' /\ Traced(s)'
  <2>1. Alone' /\ Present'
    BY <1>1, <1>5 DEF ErasureInv, Alone, Present, Running
  <2>2. Warded'
    BY <1>1, <1>5 DEF ErasureInv, Warded
  <2>3. ASSUME NEW s \in Requests
        PROVE  Emptied(s)'
    <3>1. \A u : Owned(u)' = Owned(u)
      BY DEF Owned
    <3>2. QED
      BY <1>1, <1>5, <3>1 DEF ErasureInv, Emptied
  <2>4. ASSUME NEW s \in Requests, Traceable(s)'
        PROVE  Standing(s)'
    <3>1. Created(s) /\ photo[s] \in {"none", "saved"}
      BY <1>1, <1>3, <2>4 DEF Traceable, ErasureInv, Stages, Created
    <3>2. \E g \in disk : g.pic = s
      BY <2>4, <3>1 DEF Traceable
    <3>3. Traceable(s)
      BY <1>1, <2>4, <3>1, <3>2 DEF Traceable, Replaced
    <3>4. Standing(s)
      BY <1>5, <3>3 DEF ErasureInv, Traced
    <3>5. PICK c : c = runs[s].c
      OBVIOUS
    <3>6. c \in Slots /\ cocktails'[c] # Null /\ Mark(cocktails'[c], s)
      BY <3>1, <3>4, <3>5 DEF Standing, Mark
    <3>7. \A q, d, row : Copy(q, d, row)' <=> Copy(q, d, row)
      BY <1>1 DEF Copy
    <3>8. \A row : Mark(row, s)' <=> Mark(row, s)
      BY <1>1 DEF Mark
    <3>9. QED
      BY <1>1, <3>4, <3>5, <3>6, <3>7, <3>8 DEF Standing, Mark
  <2>5. QED
    BY <2>1, <2>2, <2>3, <2>4 DEF Traced
<1>6. QED
  BY <1>1, <1>2, <1>3, <1>4, <1>5 DEF ErasureInv

LEMMA UntouchedErases ==
  ASSUME ErasureInv, UNCHANGED <<scene, users, cocktails, favs, ratings, runs, photo>>,
         \A f \in disk' : \E g \in disk : g.pic = f.pic
  PROVE  ErasureInv'
  BY StillErases DEF ErasureInv, LibraryBooks, Typed, Tables

\* The nightly job only takes files away, and the hour only makes them older.
LEMMA SweepErases ==
  ASSUME PicInv, ErasureInv, Sweeping, UNCHANGED <<scene, tables, runs>>
  PROVE  ErasureInv'
<1>1. photo' = photo
  BY DEF Sweeping, SweepList, SweepRead, SweepFile, HourPasses
<1>2. CASE SweepList \/ SweepRead
  BY <1>1, <1>2, UntouchedErases DEF SweepList, SweepRead, tables
<1>3. CASE SweepFile
  BY <1>1, <1>3, UntouchedErases DEF SweepFile, tables
<1>4. CASE HourPasses(Quiet)
  <2>1. disk' = {[f EXCEPT !.old = TRUE] : f \in disk}
    BY <1>4 DEF HourPasses
  <2>2. ASSUME NEW g \in disk'
        PROVE  \E f \in disk : f.pic = g.pic
    <3>1. PICK f \in disk : g = [f EXCEPT !.old = TRUE]
      BY <2>1, <2>2, Zenon
    <3>2. g = [pic |-> f.pic, part |-> f.part, old |-> TRUE]
      BY <3>1, SetOld, Zenon DEF PicInv, DiskFits
    <3>3. QED
      BY <3>2
  <2>3. QED
    BY <1>1, <2>2, UntouchedErases DEF tables
<1>5. QED
  BY <1>2, <1>3, <1>4 DEF Sweeping

\* A file is written of a picture that is being stored.
LEMMA WriteErases ==
  ASSUME PicInv, ErasureInv, NEW r \in Requests, Storing(r), UNCHANGED <<scene, tables, runs>>
  PROVE  ErasureInv'
<1>1. PICK part, next, state :
         /\ <<part, next>> \in {<<"full", "thumb">>, <<"thumb", "saved">>} /\ photo[r] = part
         /\ photo' = [photo EXCEPT ![r] = state]
         /\ \/ disk' = disk \cup {[pic |-> r, part |-> part, old |-> FALSE]}
            \/ disk' = disk
  BY DEF Storing, WriteFull, WriteThumb, Write
<1>2. photo[r] \in {"full", "thumb"} /\ \A p \in Requests \ {r} : photo'[p] = photo[p]
  BY <1>1 DEF PicInv
<1>3. ASSUME NEW f \in disk'
      PROVE  f \in disk \/ f.pic = r
  BY <1>1, <1>3
<1>4. cocktails' \in [Slots -> Cocktail \cup {Null}]
  BY DEF ErasureInv, LibraryBooks, Typed, Tables, tables
<1>5. QED
  BY <1>2, <1>3, <1>4, StillErases DEF tables

\* The picture of an import comes onto the cocktail that is in the making for it,
\* which is nobody's that was created with a picture of its own.
LEMMA IngestErases ==
  ASSUME PicInv, ErasureInv, NEW r \in Requests, IngestImage(r)
  PROVE  ErasureInv'
<1>1. /\ UNCHANGED <<scene, users, runs, favs, ratings, disk>> /\ r \in Nat
      /\ Ask(r).kind = "prepare" /\ photo[r] = "saved" /\ photo' = [photo EXCEPT ![r] = "stored"]
  BY ScenesAssumption DEF IngestImage, Requests, ErasureInv, LibraryBooks, Typed
<1>2. \A p \in Requests \ {r} : photo'[p] = photo[p]
  BY <1>1 DEF PicInv
<1>3. PICK d : /\ d = runs[r].c
               /\ cocktails' = IF cocktails[d] = Null THEN cocktails ELSE [cocktails EXCEPT ![d].image = r]
  BY DEF IngestImage
<1>4. Tables
  BY DEF ErasureInv, LibraryBooks, Typed
<1>5. /\ cocktails' \in [Slots -> Cocktail \cup {Null}]
      /\ \A c \in Slots : /\ cocktails'[c] = Null <=> cocktails[c] = Null
                          /\ cocktails'[c].owner = cocktails[c].owner /\ cocktails'[c].public = cocktails[c].public
                          /\ c # d => cocktails'[c] = cocktails[c]
  <2>1. CASE cocktails[d] = Null \/ d \notin Slots
    <3>1. cocktails' = cocktails
      BY <1>3, <1>4, <2>1 DEF Tables
    <3>2. QED
      BY <1>4, <3>1 DEF Tables
  <2>2. CASE cocktails[d] # Null /\ d \in Slots
    <3>1. PICK row : row = [cocktails[d] EXCEPT !.image = r]
      OBVIOUS
    <3>2. cocktails[d] \in Cocktail
      BY <1>4, <2>2 DEF Tables
    <3>3. row \in Cocktail /\ row.owner = cocktails[d].owner /\ row.public = cocktails[d].public /\ row # Null
      BY <1>1, <3>1, <3>2, TypesAssumption DEF Cocktail
    <3>4. cocktails' = [cocktails EXCEPT ![d] = row]
      BY <1>3, <1>4, <2>2, <3>1 DEF Tables
    <3>5. QED
      BY <1>4, <2>2, <3>3, <3>4 DEF Tables
  <2>3. QED
    BY <2>1, <2>2
<1>6. \A s \in Requests : Created(s) => runs[s].c # d
  BY <1>1, <1>3 DEF ErasureInv, Untaken
<1>7. QED
  BY <1>1, <1>2, <1>5, <1>6, StillErases

LEMMA ErasureInit == BarInit => ErasureInv
<1>1. SUFFICES ASSUME BarInit PROVE ErasureInv
  OBVIOUS
<1>2. /\ scene \in Scenes /\ runs = [r \in Requests |-> Idle] /\ users = Users
      /\ cocktails = [c \in Slots |-> IF c \in DOMAIN scene.cocktails THEN scene.cocktails[c] ELSE Null]
      /\ favs = [i \in FavIds |-> IF i \in DOMAIN scene.favs THEN scene.favs[i] ELSE Null]
      /\ ratings = [k \in Users \X Things |-> IF k \in DOMAIN scene.ratings THEN scene.ratings[k] ELSE Null]
  BY <1>1 DEF BarInit, Init, Things
<1>3. \A r \in Requests : runs[r] = Idle /\ runs[r].pc = "new" /\ runs[r].rest = {}
  BY <1>2 DEF Idle
<1>4. Tables
  <2>1. \A c \in Slots : cocktails[c] \in Cocktail \cup {Null}
    BY <1>2, ScenesAssumption
  <2>2. \A i \in FavIds : favs[i] \in Favorite \cup {Null}
    BY <1>2, ScenesAssumption
  <2>3. \A k \in Users \X Things : ratings[k] \in 1..5 \cup {Null}
    BY <1>2, ScenesAssumption
  <2>4. QED
    BY <1>2, <2>1, <2>2, <2>3 DEF Tables, Scored
<1>5. \A r \in Requests : Copies(r) /\ Ours(r)
  BY <1>3 DEF Copies, Holds, Keeping, Rating, Importing, Ours
<1>6. RunShape
  BY <1>1, PicInit DEF PicInv
<1>7. FavsBelong /\ ScoresBelong
  BY <1>2, <1>4 DEF FavsBelong, ScoresBelong, Tables, Favorite
<1>8. RowsBelong
  BY <1>2, <1>4 DEF RowsBelong, Tables, Cocktail
<1>9. \A r \in Requests : Stages(r) /\ Untaken(r) /\ Emptied(r) /\ Traced(r)
  BY <1>3 DEF Stages, Untaken, Created, Emptied, Traced, Traceable
<1>10. Alone /\ Present
  BY <1>3 DEF Alone, Present, Running
<1>11. Warded
  <2>1. \A c \in Slots : cocktails[c] # Null /\ cocktails[c].owner = Null => cocktails[c].public
    BY <1>2, ScenesAssumption
  <2>2. QED
    BY <2>1 DEF Warded
<1>12. QED
  BY <1>2, <1>4, <1>5, <1>6, <1>7, <1>8, <1>9, <1>10, <1>11 DEF ErasureInv, LibraryBooks, Typed

LEMMA ErasureStep == QuotaInv /\ PicInv /\ ErasureInv /\ [BarNext]_barVars => ErasureInv'
<1>1. SUFFICES ASSUME QuotaInv, PicInv, ErasureInv, [BarNext]_barVars PROVE ErasureInv'
  OBVIOUS
<1>2. OrderShape /\ Typed /\ FavsBelong /\ ScoresBelong
  BY <1>1 DEF QuotaInv, ErasureInv, LibraryBooks
<1>3. ASSUME NEW r \in Requests, LibraryStep(r), TableStep(r)
      PROVE  ErasureInv'
  BY <1>1, <1>3, LibraryStepErases
<1>4. CASE UNCHANGED barVars
  BY <1>1, <1>4, UntouchedErases DEF barVars, vars, tables, pictures
<1>5. CASE Midnight \/ CleanHistory \/ (Finished /\ UNCHANGED ai)
  <2>1. UNCHANGED <<scene, tables, runs, pictures>>
    BY <1>5 DEF Midnight, CleanHistory, Finished, vars
  <2>2. QED
    BY <1>1, <2>1, UntouchedErases DEF tables, pictures
<1>6. CASE Sweeping /\ UNCHANGED <<scene, tables, runs, given, putBack, ai>>
  BY <1>1, <1>6, SweepErases
<1>7. ASSUME NEW r \in Requests, Bartending(r)
      PROVE  ErasureInv'
  <2>1. CASE Generate(r) \/ ToolTurn(r) \/ ModelFails(r) \/ ModelAnswers(r) \/ Consume(r) \/ Compare(r) \/ Record(r)
    BY <1>1, <1>2, <1>3, <2>1, TalkSteps, TalkingHandles
  <2>2. CASE SaveRead(r) \/ LookUp(r) \/ MakeName(r) \/ SaveCocktail(r) \/ SaveMark(r) \/ Discard(r)
    <3>1. TableStep(r)
      BY <1>1, <2>2, AsideSteps DEF Aside
    <3>2. LibraryStep(r)
      BY <1>1, <1>2, <2>2, SaveCocktailHandles, TalkingHandles
    <3>3. QED
      BY <1>3, <3>1, <3>2
  <2>3. QED
    BY <1>7, <2>1, <2>2 DEF Bartending
<1>8. ASSUME NEW r \in Requests, EraseHistory(r)
      PROVE  ErasureInv'
  BY <1>1, <1>2, <1>3, <1>8, EraseSteps, EndingHandles DEF EraseHistory
<1>9. ASSUME NEW r \in Requests, Recipes(r)
      PROVE  ErasureInv'
  <2>1. TableStep(r)
    BY <1>1, <1>9, RecipeStarts, InsertSteps, UpdateReads, UpdateSaves, RemoveSteps, ResolveSteps DEF Recipes
  <2>2. LibraryStep(r)
    BY <1>1, <1>2, <1>9, RecipeStartsHandle, InsertHandles, RecipeSavesHandle, ResolveHandles DEF Recipes
  <2>3. QED
    BY <1>3, <2>1, <2>2
<1>10. ASSUME NEW r \in Requests, Favorites(r) \/ Ratings(r) \/ EraseRead(r) \/ EraseOne(r)
       PROVE  ErasureInv'
  <2>1. TableStep(r)
    BY <1>1, <1>10, AsideSteps, MigrationSteps, RateSteps, EraseSteps DEF Favorites, Ratings, Aside
  <2>2. CASE Favorites(r)
    BY <1>2, <1>3, <2>1, <2>2, FavoritesHandle, UnfavoritesHandle, ListReadHandles, ListSaveHandles, MigrateReadHandles,
       MigrateSaveHandles DEF Favorites
  <2>3. CASE Ratings(r)
    BY <1>2, <1>3, <2>1, <2>3, MovesHandle, RateTargetHandles, RatesHandle, RateSaveHandles DEF Ratings
  <2>4. CASE EraseRead(r) \/ EraseOne(r)
    BY <1>2, <1>3, <2>1, <2>4, EraseReadHandles, EraseOneHandles
  <2>5. QED
    BY <1>10, <2>2, <2>3, <2>4
<1>11. ASSUME NEW r \in Requests, Pictures(r)
       PROVE  ErasureInv'
  <2>1. CASE Upload(r) \/ UploadFails(r)
    BY <1>1, <1>2, <1>3, <2>1, RecipeStarts, RecipeStartsHandle
  <2>2. CASE IngestImage(r)
    BY <1>1, <2>2, IngestErases
  <2>3. CASE Storing(r) /\ UNCHANGED <<scene, tables, runs, given, putBack>>
    BY <1>1, <2>3, WriteErases
  <2>4. QED
    BY <1>11, <2>1, <2>2, <2>3 DEF Pictures
<1>12. QED
  BY <1>1, <1>4, <1>5, <1>6, <1>7, <1>8, <1>9, <1>10, <1>11 DEF BarNext

LEMMA NothingLeft == ErasureInv => ErasedLeavesNothing
<1>1. SUFFICES ASSUME ErasureInv PROVE ErasedLeavesNothing
  OBVIOUS
<1>2. Typed /\ FavsBelong /\ ScoresBelong /\ RowsBelong
  BY <1>1 DEF ErasureInv, LibraryBooks
<1>3. ASSUME NEW u \in Users \ users
      PROVE  /\ \A i \in FavIds : favs[i] # Null => favs[i].user # u
             /\ \A k \in DOMAIN ratings : k[1] = u => ratings[k] = Null
             /\ \A c \in Slots : cocktails[c] # Null => cocktails[c].owner # u
  <2>1. u # Null
    BY TypesAssumption
  <2>2. ASSUME NEW k \in DOMAIN ratings, k[1] = u
        PROVE  ratings[k] = Null
    <3>1. k \in Users \X Things
      BY <1>2 DEF Typed, Tables, Scored
    <3>2. k = <<k[1], k[2]>> /\ k[2] \in Things
      BY <3>1
    <3>3. QED
      BY <1>2, <1>3, <2>2, <3>2 DEF ScoresBelong
  <2>3. QED
    BY <1>2, <1>3, <2>1, <2>2 DEF FavsBelong, RowsBelong
<1>4. ASSUME NEW u \in Users \ users, NEW r \in Requests, scene.patient, Ask(r).user = u, Ask(r).kind = "create",
             ~Ask(r).public, runs[r].pc = "done"
      PROVE  Replaced(r) \/ \A f \in disk : f.pic # r
  <2>1. SUFFICES ASSUME Traceable(r)
                 PROVE  FALSE
    BY <1>4 DEF Traceable, Created
  <2>2. Standing(r)
    BY <1>1, <1>4, <2>1 DEF ErasureInv, Traced
  <2>3. QED
    BY <1>2, <1>3, <1>4, <2>2 DEF Standing, Mark
<1>5. scene.patient => Warded
  BY <1>1 DEF ErasureInv
<1>6. QED
  BY <1>3, <1>4, <1>5 DEF ErasedLeavesNothing, Warded

\* However its steps mix with everybody's recipes, favorites, ratings, pictures and
\* talk, the erasure of an account leaves nothing in its name: no favorite, rating
\* or recipe; and, where it did one thing at a time, no picture it had put on a
\* private recipe, and no private recipe that belongs to nobody.
THEOREM ErasedLeavesNothingHolds == BarSpec => []ErasedLeavesNothing
<1>1. ErasureInv => ErasedLeavesNothing
  BY NothingLeft
<1>2. QuotaInv => OrderShape
  BY DEF QuotaInv
<1>3. QED
  BY <1>1, <1>2, QuotaInit, QuotaStep, PicInit, PicStep, ErasureInit, ErasureStep, PTL DEF BarSpec

(******************************* the ratings *******************************)
\* What a step may do to a rating: store it for the request, move it, or take away
\* one of who has left or of what is not one's own.
Counts(r, u, t) ==
  \/ ratings'[<<u, t>>] = ratings[<<u, t>>] \/ Erased(u)'
  \/ t \in Slots /\ ratings'[<<u, t>>] = Null /\ \A e : ~Belongs(t, u, e)
  \/ Ask(r).user = u /\ t = runs[r].c /\ (RateStore(r) \/ MoveStore(r))
  \/ Ask(r).user = u /\ t = Ask(r).on /\ MoveRemove(r)
\* Ratings go with their cocktail.
GoesAlong(c) == cocktails'[c] = Null /\ cocktails[c] # Null => \A u \in Users : ratings'[<<u, c>>] = Null
\* A row to be saved is one that was there when it was read.
Saver(r) == Ask(r).kind \in {"update", "remove", "rate"}
Upheld(r, c) == Holds(r, c)' =>
  \/ ~runs'[r].row.deleted
  \/ Holds(r, c) /\ runs'[r].row.deleted = runs[r].row.deleted
MovesRating(r) == MoveRead(r) \/ MoveFind(r) \/ MoveStore(r) \/ MoveRemove(r)
RatingStep(r) ==
  /\ \A u \in Users, t \in Things : Counts(r, u, t)
  /\ \A c \in Slots : GoesAlong(c)
  /\ given' = given \/ RateSave(r)
  /\ Saver(r) => \A c \in Slots : Upheld(r, c)
  /\ Ask(r).kind = "rate" => RateTarget(r) \/ RateFind(r) \/ RateStore(r) \/ RateAverage(r) \/ RateSave(r)
  /\ Ask(r).kind = "prepare" => PrepareFind(r) \/ Insert(r) \/ MigrateRead(r) \/ MigrateSave(r) \/ MovesRating(r)

\* Only an erasure deletes a row, or a verdict.
LEMMA RowsRemain ==
  ASSUME NEW r \in Requests, LibraryStep(r), Ask(r).kind \notin {"erase", "resolve"}
  PROVE  \A c \in Slots : GoesAlong(c)
  BY DEF LibraryStep, Alters, Makes, Saves, Weighs, Frees, Drops, Leaves, GoesAlong

\* A step that leaves the ratings alone.
LEMMA RatingsRemain ==
  ASSUME NEW r \in Requests, UNCHANGED ratings
  PROVE  \A u \in Users, t \in Things : Counts(r, u, t)
  BY DEF Counts

LEMMA PlainRates ==
  ASSUME NEW r \in Requests, LibraryStep(r), UNCHANGED <<ratings, given>>, ~Saver(r),
         Ask(r).kind \notin {"prepare", "erase", "resolve"}
  PROVE  RatingStep(r)
  BY RowsRemain, RatingsRemain DEF RatingStep, Saver

LEMMA SaverRates ==
  ASSUME NEW r \in Requests, LibraryStep(r), UNCHANGED <<ratings, given>>,
         Ask(r).kind \in {"create", "update", "remove"}, \A c \in Slots : Upheld(r, c)
  PROVE  RatingStep(r)
  BY RowsRemain, RatingsRemain DEF RatingStep

LEMMA AsideRates ==
  ASSUME QuotaInv, NEW r \in Requests, LibraryStep(r),
         \/ Generate(r) \/ ToolTurn(r) \/ ModelFails(r) \/ ModelAnswers(r) \/ Consume(r) \/ Compare(r) \/ Record(r)
         \/ Aside(r) \/ SaveCocktail(r)
  PROVE  RatingStep(r)
<1>1. RunShape
  BY DEF QuotaInv
<1>2. UNCHANGED <<ratings, given>>
  BY DEF Generate, ToolTurn, ModelFails, ModelAnswers, Consume, Compare, Record, SaveCocktail, Aside, FavoriteCheck,
         FavoriteInsert, UnfavoriteRead, UnfavoriteDrop, ListRead, ListSave, SaveRead, LookUp, MakeName, SaveMark, Discard,
         Keep, tables
<1>3. Ask(r).kind \in AsideKinds \cup {"generate", "regenerate"}
  <2>1. CASE Generate(r) \/ ToolTurn(r) \/ ModelFails(r) \/ ModelAnswers(r) \/ Consume(r) \/ Compare(r) \/ Record(r)
    BY <2>1, TalkKeepsShape DEF Ordering
  <2>2. CASE Aside(r)
    BY <1>1, <2>2, AsideDoes
  <2>3. CASE SaveCocktail(r)
    BY <2>3 DEF SaveCocktail, At, AsideKinds
  <2>4. QED
    BY <2>1, <2>2, <2>3
<1>4. QED
  BY <1>2, <1>3, PlainRates DEF AsideKinds, Saver

\* Recipes: what is read is there, and what has been read stays as it is.
LEMMA RecipesRate ==
  ASSUME Well, NEW r \in Requests, LibraryStep(r), Recipes(r) \/ Upload(r) \/ UploadFails(r)
  PROVE  RatingStep(r)
<1>1. RunShape /\ Copies(r) /\ Tables /\ Ask(r).kind # "resolve"
  BY Asked DEF Well
<1>2. UNCHANGED <<ratings, given>> \/ ResolveRead(r) \/ Resolve(r)
  BY DEF Recipes, Upload, UploadFails, PrepareFind, CreateStart, Insert, UpdateRead, UpdateCount, UpdateSave,
         RemoveRead, RemoveSave, Keep, Beside, tables
<1>3. CASE PrepareFind(r)
  <2>1. Ask(r).kind = "prepare"
    BY <1>1, <1>3, PrepareFindDoes
  <2>2. UNCHANGED <<ratings, given>>
    BY <1>3 DEF PrepareFind, Keep, tables
  <2>3. QED
    BY <1>3, <2>1, <2>2, RowsRemain, RatingsRemain DEF RatingStep, Saver
<1>4. CASE Insert(r)
  <2>1. /\ Ask(r).kind \in {"create", "update", "prepare"}
        /\ runs'[r].pc \in {"failed", "favorite", "done"}
    BY <1>1, <1>4, InsertDoes
  <2>2. UNCHANGED <<ratings, given>>
    BY <1>4 DEF Insert
  <2>3. \A c \in Slots : Upheld(r, c)
    BY <2>1 DEF Upheld, Holds, Keeping, Rating
  <2>4. QED
    BY <1>4, <2>1, <2>2, <2>3, RowsRemain, RatingsRemain DEF RatingStep
<1>5. CASE CreateStart(r) \/ Upload(r) \/ UploadFails(r)
  <2>1. /\ Ask(r).kind \in {"create", "update"} /\ runs'[r].pc \in {"insert", "upload", "failed"}
    BY <1>1, <1>5, CreateStartDoes, UploadDoes, UploadFailsDoes
  <2>2. UNCHANGED <<ratings, given>>
    BY <1>5 DEF CreateStart, Upload, UploadFails, Keep, tables
  <2>3. \A c \in Slots : Upheld(r, c)
    BY <2>1 DEF Upheld, Holds, Keeping, Rating
  <2>4. QED
    BY <2>1, <2>2, <2>3, SaverRates
<1>6. CASE UpdateRead(r) \/ RemoveRead(r)
  <2>1. /\ Ask(r).kind \in {"update", "remove"}
        /\ \/ Live(Ask(r).on) /\ runs'[r].c = Ask(r).on /\ runs'[r].row = cocktails[Ask(r).on]
           \/ runs'[r].pc = "refused"
    BY <1>1, <1>6, UpdateReadDoes, RemoveReadDoes
  <2>2. UNCHANGED <<ratings, given>>
    BY <1>6 DEF UpdateRead, RemoveRead, Keep, Beside, tables
  <2>3. ASSUME NEW c \in Slots, Holds(r, c)'
        PROVE  ~runs'[r].row.deleted
    <3>1. runs'[r].pc \in Keeping /\ runs'[r].c = c
      BY <2>3 DEF Holds
    <3>2. Live(c) /\ runs'[r].row = cocktails[c]
      BY <2>1, <3>1 DEF Keeping, Rating
    <3>3. QED
      BY <3>2 DEF Live
  <2>4. QED
    BY <2>1, <2>2, <2>3, SaverRates DEF Upheld
<1>7. CASE UpdateCount(r)
  <2>1. /\ Ask(r).kind = "update" /\ runs[r].pc = "count" /\ runs'[r].pc \in {"insert", "save"}
        /\ runs'[r].c = runs[r].c /\ runs'[r].row = runs[r].row
    BY <1>1, <1>7, UpdateCountDoes
  <2>2. UNCHANGED <<ratings, given>>
    BY <1>7 DEF UpdateCount, Keep, tables
  <2>3. \A c \in Slots : Upheld(r, c)
    BY <2>1 DEF Upheld, Holds, Keeping, Rating
  <2>4. QED
    BY <2>1, <2>2, <2>3, SaverRates
<1>8. CASE UpdateSave(r) \/ RemoveSave(r)
  <2>1. PICK row : SaveRow(r, row)
    BY <1>8 DEF UpdateSave, RemoveSave
  <2>2. Ask(r).kind \in {"update", "remove"} /\ runs[r].pc = "save"
    BY <1>8 DEF UpdateSave, RemoveSave, At
  <2>3. runs'[r].pc \in {"done", "failed"}
    BY <1>1, <2>1, <2>2, SaveRowDoes
  <2>4. UNCHANGED <<ratings, given>>
    BY <1>8 DEF UpdateSave, RemoveSave, Beside
  <2>5. \A c \in Slots : Upheld(r, c)
    BY <2>3 DEF Upheld, Holds, Keeping, Rating
  <2>6. QED
    BY <2>2, <2>4, <2>5, SaverRates
<1>9. CASE ResolveRead(r) \/ Resolve(r)
  BY <1>1, <1>9 DEF ResolveRead, Resolve, Starts, At
<1>10. QED
  BY <1>3, <1>4, <1>5, <1>6, <1>7, <1>8, <1>9 DEF Recipes

\* Imports and forks move a favorite, an import the rating too.
LEMMA MigrationsRate ==
  ASSUME Well, NEW r \in Requests, LibraryStep(r), MigrateRead(r) \/ MigrateSave(r)
  PROVE  RatingStep(r)
<1>1. /\ Ask(r).kind \in {"create", "update", "prepare"}
      /\ runs'[r].pc \in {"favorite", "repoint", "done", "rating", "move-find", "move-store", "move-remove"}
  BY MigrationDoes DEF Well
<1>2. UNCHANGED <<ratings, given>>
  BY DEF MigrateRead, MigrateSave, Keep, tables
<1>3. \A c \in Slots : Upheld(r, c)
  BY <1>1 DEF Upheld, Holds, Keeping, Rating
<1>4. QED
  BY <1>1, <1>2, <1>3, RowsRemain, RatingsRemain DEF RatingStep

LEMMA MovesRate ==
  ASSUME Well, NEW r \in Requests, LibraryStep(r), MovesRating(r)
  PROVE  RatingStep(r)
<1>1. Ask(r).kind = "prepare" /\ given' = given
  BY DEF MovesRating, MoveRead, MoveFind, MoveStore, MoveRemove, At, Keep
<1>2. Scored
  BY DEF Well, Tables
<1>3. CASE MoveRead(r) \/ MoveFind(r)
  <2>1. UNCHANGED ratings
    BY <1>3 DEF MoveRead, MoveFind, Keep, tables
  <2>2. QED
    BY <1>1, <2>1, RowsRemain, RatingsRemain DEF RatingStep, Saver, MovesRating
<1>4. CASE MoveStore(r)
  <2>1. PICK row, k : /\ k = <<Ask(r).user, runs[r].c>>
                      /\ ratings' = [ratings EXCEPT ![k] = row] \/ ratings' = ratings
    BY <1>4 DEF MoveStore
  <2>2. ASSUME NEW u \in Users, NEW t \in Things
        PROVE  Counts(r, u, t)
    <3>1. CASE <<u, t>> = k
      BY <1>4, <2>1, <3>1 DEF Counts
    <3>2. CASE <<u, t>> # k
      <4>1. ratings'[<<u, t>>] = ratings[<<u, t>>]
        BY <1>2, <2>1, <3>2 DEF Scored
      <4>2. QED
        BY <4>1 DEF Counts
    <3>3. QED
      BY <3>1, <3>2
  <2>3. QED
    BY <1>1, <1>4, <2>2, RowsRemain DEF RatingStep, Saver, MovesRating
<1>5. CASE MoveRemove(r)
  <2>1. PICK k : k = <<Ask(r).user, Ask(r).on>> /\ ratings' = [ratings EXCEPT ![k] = Null]
    BY <1>5 DEF MoveRemove
  <2>2. ASSUME NEW u \in Users, NEW t \in Things
        PROVE  Counts(r, u, t)
    <3>1. CASE <<u, t>> = k
      BY <1>5, <2>1, <3>1 DEF Counts
    <3>2. CASE <<u, t>> # k
      BY <2>1, <3>2 DEF Counts
    <3>3. QED
      BY <3>1, <3>2
  <2>3. QED
    BY <1>1, <1>5, <2>2, RowsRemain DEF RatingStep, Saver, MovesRating
<1>6. QED
  BY <1>3, <1>4, <1>5 DEF MovesRating

LEMMA RatesRate ==
  ASSUME Well, NEW r \in Requests, LibraryStep(r),
         RateTarget(r) \/ RateFind(r) \/ RateStore(r) \/ RateAverage(r) \/ RateSave(r)
  PROVE  RatingStep(r)
<1>1. Ask(r).kind = "rate" /\ RunShape /\ Scored /\ Copies(r)
  BY DEF Well, Tables, RateTarget, RateFind, RateStore, RateAverage, RateSave, Starts, At
<1>2. given' = given \/ RateSave(r)
  BY DEF RateTarget, RateFind, RateStore, RateAverage, Keep
<1>3. ASSUME NEW u \in Users, NEW t \in Things
      PROVE  Counts(r, u, t)
  <2>1. CASE RateStore(r)
    <3>1. PICK score, k : /\ k = <<Ask(r).user, runs[r].c>>
                          /\ ratings' = [ratings EXCEPT ![k] = score] \/ ratings' = ratings
      BY <2>1 DEF RateStore
    <3>2. CASE <<u, t>> = k
      BY <2>1, <3>1, <3>2 DEF Counts
    <3>3. CASE <<u, t>> # k
      <4>1. ratings'[<<u, t>>] = ratings[<<u, t>>]
        BY <1>1, <3>1, <3>3 DEF Scored
      <4>2. QED
        BY <4>1 DEF Counts
    <3>4. QED
      BY <3>2, <3>3
  <2>2. CASE ~RateStore(r)
    <3>1. UNCHANGED ratings
      BY <2>2 DEF RateTarget, RateFind, RateAverage, RateSave, Keep, tables
    <3>2. QED
      BY <3>1, RatingsRemain
  <2>3. QED
    BY <2>1, <2>2
<1>4. ASSUME NEW c \in Slots, Holds(r, c)'
      PROVE  Upheld(r, c)
  <2>1. CASE RateTarget(r)
    <3>1. PICK t \in Rated(Ask(r).user, Ask(r).on) :
            Go(r, [Idle EXCEPT !.pc = "rate-find", !.c = t, !.row = IF t \in Slots THEN cocktails[t] ELSE Null])
      <4>1. runs'[r].pc # "refused"
        BY <1>4 DEF Holds, Keeping, Rating
      <4>2. ~To(r, "refused")
        BY <1>1, <4>1, ToStep DEF Lands, Place, Talking
      <4>3. QED
        BY <2>1, <4>2 DEF RateTarget
    <3>2. PICK row : row = IF t \in Slots THEN cocktails[t] ELSE Null
      OBVIOUS
    <3>3. Go(r, [Idle EXCEPT !.pc = "rate-find", !.c = t, !.row = row])
      BY <3>1, <3>2
    <3>7. runs'[r].c = t /\ runs'[r].row = row
      <4>1. Lands(Ask(r).kind, "rate-find")
        BY <1>1 DEF Lands, Place, Talking
      <4>2. QED
        BY <1>1, <3>3, <4>1, ReadStep
    <3>4. t = c /\ t \notin Externals
      BY <1>4, <3>7, TypesAssumption DEF Holds, Slots
    <3>5. Live(t)
      BY <3>1, <3>4 DEF Rated, OwnForks, Forks
    <3>6. QED
      <4>1. runs'[r].row = cocktails[c] /\ ~cocktails[c].deleted
        BY <3>2, <3>4, <3>5, <3>7 DEF Live
      <4>2. QED
        BY <4>1 DEF Upheld
  <2>2. CASE ~RateTarget(r)
    <3>1. /\ runs[r].pc \in Rating /\ runs'[r].c = runs[r].c /\ Averaged(r, runs'[r].row)
      BY <1>1, <2>2, RatingDoes
    <3>2. Holds(r, c) /\ runs[r].row \in Cocktail
      BY <1>1, <1>4, <3>1 DEF Holds, Keeping, Copies
    <3>3. runs'[r].row = runs[r].row \/ runs'[r].row = [runs[r].row EXCEPT !.avg = Average(runs[r].c)]
      BY <3>1, <3>2 DEF Averaged, Holds
    <3>4. \A avg : [runs[r].row EXCEPT !.avg = avg].deleted = runs[r].row.deleted
      BY <3>2 DEF Cocktail
    <3>5. QED
      BY <3>2, <3>3, <3>4 DEF Upheld
  <2>3. QED
    BY <2>1, <2>2
<1>5. \A c \in Slots : Upheld(r, c)
  BY <1>4 DEF Upheld
<1>6. QED
  BY <1>1, <1>2, <1>3, <1>5, RowsRemain DEF RatingStep

\* An erasure takes the ratings of what it deletes along, which is its user's, and
\* in the end the user's own.
LEMMA ErasesRate ==
  ASSUME Well, NEW r \in Requests, LibraryStep(r), EraseRead(r) \/ EraseOne(r) \/ EraseData(r) \/ EraseUser(r)
  PROVE  RatingStep(r)
<1>1. /\ Ask(r).kind = "erase" /\ given' = given /\ RunShape /\ Tables /\ Scored /\ Agree /\ UNCHANGED scene
  BY DEF Well, Tables, EraseRead, EraseOne, EraseData, EraseUser, Starts, At, Keep, Beside
<1>2. SUFFICES ASSUME TRUE
               PROVE  (\A u \in Users, t \in Things : Counts(r, u, t)) /\ \A c \in Slots : GoesAlong(c)
  BY <1>1, <1>2 DEF RatingStep, Saver
<1>3. Moves(r) /\ \A u : Erased(u) => Erased(u)'
  BY <1>1, ErasedStays DEF LibraryStep
<1>4. CASE UNCHANGED <<cocktails, ratings>>
  BY <1>4, RatingsRemain DEF GoesAlong
<1>5. CASE EraseUser(r)
  <2>1. PICK v : /\ v = Ask(r).user /\ ratings' = [k \in DOMAIN ratings |-> IF k[1] = v THEN Null ELSE ratings[k]]
                 /\ cocktails' = [c \in Slots |-> IF cocktails[c] # Null /\ cocktails[c].owner = v
                                                  THEN [cocktails[c] EXCEPT !.owner = Null] ELSE cocktails[c]]
    BY <1>5 DEF EraseUser
  <2>2. Erased(v)'
    BY <1>1, <1>3, <1>5, <2>1, SameAsks DEF Erased, Moves, Lands
  <2>3. \A u \in Users, t \in Things : Counts(r, u, t)
    BY <1>1, <2>1, <2>2 DEF Counts, Scored
  <2>4. \A c \in Slots : GoesAlong(c)
    <3>1. \A c \in Slots : cocktails[c] # Null => [cocktails[c] EXCEPT !.owner = Null] \in Cocktail
      BY <1>1 DEF Tables, Cocktail
    <3>2. QED
      BY <2>1, <3>1, TypesAssumption DEF GoesAlong
  <2>5. QED
    BY <2>3, <2>4
<1>6. CASE EraseOne(r)
  <2>1. PICK c \in runs[r].rest : AnonymizeOrRemove(r, c)
    BY <1>6 DEF EraseOne
  <2>2. c \in Slots /\ runs[r].row[c] \in Cocktail
    BY <1>1, <2>1, Asked DEF Copies
  <2>3. CASE Disown(r, c)
    <3>1. ratings' = ratings
      BY <2>3 DEF Disown
    <3>2. PICK row : row = [runs[r].row[c] EXCEPT !.owner = Null] /\ cocktails' = [cocktails EXCEPT ![c] = row]
      BY <2>3 DEF Disown
    <3>3. row # Null
      BY <2>2, <3>2, TypesAssumption DEF Cocktail
    <3>4. \A d \in Slots : GoesAlong(d)
      BY <1>1, <2>2, <3>2, <3>3 DEF GoesAlong, Tables
    <3>5. QED
      BY <3>1, <3>4, RatingsRemain
  <2>4. CASE Drop(c)
    <3>1. /\ cocktails' = [cocktails EXCEPT ![c] = Null]
          /\ ratings' = [k \in DOMAIN ratings |-> IF k[2] = c THEN Null ELSE ratings[k]]
      BY <2>4 DEF Drop
    <3>2. \A u \in Users, t \in Things : IF t = c THEN ratings'[<<u, t>>] = Null ELSE ratings'[<<u, t>>] = ratings[<<u, t>>]
      BY <1>1, <3>1 DEF Scored
    <3>3. \A d \in Slots : GoesAlong(d)
      BY <1>1, <3>1, <3>2 DEF GoesAlong, Tables, Things
    <3>4. ASSUME NEW u \in Users, ~Erased(u)', NEW e, Belongs(c, u, e)
          PROVE  FALSE
      BY <1>1, <1>3, <2>1, <2>2, <3>4, TypesAssumption DEF Agree, Agrees, Belongs
    <3>5. QED
      BY <2>2, <3>2, <3>3, <3>4 DEF Counts
  <2>5. QED
    BY <2>1, <2>3, <2>4 DEF AnonymizeOrRemove
<1>7. QED
  BY <1>4, <1>5, <1>6 DEF EraseRead, EraseData, Keep, tables

\* A user's one import or fork of a remote cocktail, none of whose was removed.
Sole(u, e) == ~Lost(u, e) /\ \A c, d \in Slots : Belongs(c, u, e) /\ Belongs(d, u, e) => c = d
\* The score that is shown for it, if there is one: the import's first.
Says(u, e, v) ==
  \/ \E c \in Slots : Belongs(c, u, e) /\ ratings[<<u, c>>] # Null /\ ratings[<<u, c>>] = v
  \/ (\A c \in Slots : Belongs(c, u, e) => ratings[<<u, c>>] = Null) /\ ratings[<<u, e>>] = v
\* A score is stored that its user has not been told of yet.
Giving(r, e) ==
  Ask(r).kind = "rate" /\ runs[r].pc \in {"average", "rate-save"} /\ Kin(Ask(r).user, e, runs[r].c)
Follows(u, e) == Sole(u, e) =>
  \/ \E r \in Requests : Ask(r).user = u /\ Giving(r, e) /\ Says(u, e, Ask(r).score)
  \/ Says(u, e, given[<<u, e>>]) /\ \A r \in Requests : Ask(r).user = u => ~Giving(r, e)
\* A rating goes to what stands for the thing rated, to a remote cocktail only
\* where nothing does; it overwrites the score it has seen there.
Aims(r) == Ask(r).kind = "rate" /\ runs[r].pc \in Rating =>
  LET u == Ask(r).user
      on == Ask(r).on
      c == runs[r].c
  IN  /\ on \in Externals => Kin(u, on, c)
      /\ c \in Externals => c = on /\ (Sole(u, on) => \A d \in Slots : ~Belongs(d, u, on))
      /\ \A e \in Externals : runs[r].pc = "rate-store" /\ Kin(u, e, c) => runs[r].fav = ratings[<<u, c>>]
\* An import that has not taken over the rating of what it imports has none.
Carrying == {"favorite", "repoint", "rating", "move-find", "move-store", "move-remove"}
Carries(r) == Ask(r).kind = "prepare" /\ runs[r].pc \in Carrying =>
  LET u == Ask(r).user
      on == Ask(r).on
      c == runs[r].c
  IN  /\ on \in Externals /\ c \in Slots /\ Belongs(c, u, on)
      /\ runs[r].pc = "move-remove" <=> ratings[<<u, c>>] # Null
      /\ runs[r].pc \in {"move-find", "move-store"} => runs[r].row = ratings[<<u, on>>] /\ runs[r].row # Null
      /\ runs[r].pc = "move-store" => runs[r].fav = Null
\* Ratings are of cocktails there are.
Keyed == \A u \in Users, c \in Slots : ratings[<<u, c>>] # Null => cocktails[c] # Null \/ Erased(u)
\* No request that may save a row would bring a removed one back unnoticed.
Hidden(c) == cocktails[c] # Null /\ cocktails[c].deleted /\ cocktails[c].owner # Null /\ ~Erased(cocktails[c].owner)
Afresh == \A r \in Requests, c \in Slots : Saver(r) /\ Holds(r, c) =>
            ~runs[r].row.deleted /\ (Hidden(c) => Removed(c))
Rates == /\ Keyed /\ Afresh /\ DOMAIN given = Users \X Externals
         /\ \A r \in Requests : Erased(Ask(r).user) \/ (Aims(r) /\ Carries(r))
         /\ \A u \in Users, e \in Externals : Erased(u) \/ Follows(u, e)
RatInv == Resolved \/ ~scene.patient \/ Rates

\* A step of a request, all that is known of it.
Turn(r) == /\ scene.patient /\ Well /\ Alone /\ Present /\ Rates
           /\ LibraryStep(r) /\ FavoriteStep(r) /\ RatingStep(r)

LEMMA TurnAsks ==
  ASSUME NEW r \in Requests, Turn(r)
  PROVE  /\ Requests' = Requests /\ \A s : Ask(s)' = Ask(s)
         /\ \A s \in Requests \ {r} : runs'[s] = runs[s]
         /\ \A u : Erased(u) => Erased(u)'
         /\ Tables /\ Scored /\ Scored' /\ Tables'
  BY SameAsks, ErasedStays DEF Turn, LibraryStep, Moves, Well, Tables

\* Nobody else of the user is at work.
LEMMA OnlyOne ==
  ASSUME NEW r \in Requests, Turn(r), NEW s \in Requests \ {r}, Ask(s).user = Ask(r).user
  PROVE  ~Running(s) /\ ~Running(s)'
<1>1. ~Running(s)
  BY DEF Turn, LibraryStep, Goes, Alone
<1>2. QED
  BY <1>1, TurnAsks DEF Running, Ends

\* What a user has got a step leaves, and it adds only what the user makes.
LEMMA BelongsStep ==
  ASSUME NEW r \in Requests, Turn(r), NEW u \in Users, ~Erased(u)', NEW c \in Slots, NEW e
  PROVE  /\ Belongs(c, u, e) => Belongs(c, u, e)'
         /\ Belongs(c, u, e)' => \/ Belongs(c, u, e)
                                 \/ /\ Ask(r).user = u /\ cocktails[c] = Null /\ Makes(r, c)
                                    /\ Ask(r).kind \in {"create", "update", "prepare", "save"}
<1>1. Steady(c) \/ Unnamed(c)
  BY DEF Turn, FavoriteStep, CocktailsStand
<1>2. CASE Steady(c)
  BY <1>2 DEF Steady
<1>3. CASE Unnamed(c)
  <2>1. ~Belongs(c, u, e) /\ cocktails[c] = Null /\ runs[r].c # c /\ (Ask(r).kind = "erase" => c \notin runs[r].rest)
    BY <1>3 DEF Unnamed, Named, Belongs
  <2>2. Alters(r, c)
    BY DEF Turn, LibraryStep
  <2>3. ASSUME Belongs(c, u, e)'
        PROVE  Makes(r, c)
    <3>1. cocktails'[c] # Null
      BY <2>3 DEF Belongs
    <3>2. ~Saves(r, c) /\ ~Weighs(r, c) /\ ~Frees(r, c) /\ ~Drops(r, c) /\ ~Leaves(r, c)
      BY <2>1, <3>1 DEF Saves, Weighs, Frees, Drops, Leaves
    <3>3. QED
      BY <2>1, <2>2, <3>1, <3>2 DEF Alters
  <2>4. ASSUME Belongs(c, u, e)', Makes(r, c)
        PROVE  Ask(r).user = u /\ Ask(r).kind \in {"create", "update", "prepare", "save"}
    BY <2>4 DEF Belongs, Makes
  <2>5. QED
    BY <2>1, <2>3, <2>4
<1>4. QED
  BY <1>1, <1>2, <1>3

LEMMA RemovedStays ==
  ASSUME NEW r \in Requests, Turn(r), NEW c, Removed(c)
  PROVE  Removed(c)'
<1>1. PICK s \in Requests : Ask(s).kind = "remove" /\ runs[s].pc = "done" /\ runs[s].c = c
  BY DEF Removed
<1>2. s # r
  BY <1>1 DEF Turn, LibraryStep, Goes, Running, Ends
<1>3. QED
  BY <1>1, <1>2, TurnAsks DEF Removed

\* Columns of a row in which others are set.
LEMMA SameColumns ==
  ASSUME NEW row \in Cocktail, NEW p, NEW x, NEW y
  PROVE  /\ SameRow(p, [row EXCEPT !.owner = x]) => p.owner = x /\ p.deleted = row.deleted /\ p.parent = row.parent
         /\ SameRow(p, [row EXCEPT !.image = x, !.deleted = y]) => p.owner = row.owner /\ p.deleted = y /\ p.parent = row.parent
  BY DEF SameRow, Cocktail

\* A row comes to be deleted by its removal only.
LEMMA HiddenStep ==
  ASSUME NEW r \in Requests, Turn(r), NEW c \in Slots, Hidden(c)'
  PROVE  (cocktails'[c] = cocktails[c] /\ Hidden(c)) \/ Removed(c)'
<1>1. cocktails'[c] # Null /\ cocktails'[c].deleted /\ cocktails'[c].owner # Null /\ ~Erased(cocktails'[c].owner)
  BY TurnAsks DEF Hidden, Erased
<1>2. Alters(r, c) /\ Copies(r) /\ Afresh
  BY DEF Turn, LibraryStep, Well, Rates
<1>3. CASE cocktails'[c] = cocktails[c]
  BY <1>1, <1>3 DEF Hidden
<1>4. CASE Makes(r, c)
  BY <1>1, <1>4 DEF Makes
<1>5. CASE Saves(r, c)
  <2>1. Holds(r, c) /\ Saver(r) /\ runs[r].row \in Cocktail
    BY <1>2, <1>5 DEF Saves, Holds, Keeping, Saver, Copies
  <2>2. PICK image, deleted : /\ SameRow(cocktails'[c], [runs[r].row EXCEPT !.image = image, !.deleted = deleted])
                              /\ Ask(r).kind # "remove" => deleted = runs[r].row.deleted
    BY <1>5 DEF Saves
  <2>3. SameRow(cocktails'[c], [runs[r].row EXCEPT !.image = image, !.deleted = deleted]) => cocktails'[c].deleted = deleted
    BY <2>1 DEF SameRow, Cocktail
  <2>4. Ask(r).kind = "remove"
    BY <1>1, <1>2, <2>1, <2>2, <2>3 DEF Afresh
  <2>5. QED
    BY <1>5, <2>4, TurnAsks DEF Saves, Removed
<1>6. CASE Weighs(r, c)
  <2>1. Holds(r, c) /\ Saver(r) /\ runs[r].row \in Cocktail
    BY <1>2, <1>6 DEF Weighs, Holds, Keeping, Rating, Saver, Copies
  <2>2. PICK owner : SameRow(cocktails'[c], [runs[r].row EXCEPT !.owner = owner])
    BY <1>6 DEF Weighs
  <2>3. QED
    BY <1>1, <1>2, <2>1, <2>2, SameColumns DEF Afresh
<1>7. CASE Frees(r, c)
  <2>1. runs[r].row[c] \in Cocktail
    BY <1>2, <1>7 DEF Frees, Copies
  <2>2. QED
    BY <1>1, <1>7, <2>1, SameColumns DEF Frees
<1>8. CASE Drops(r, c)
  BY <1>1, <1>8 DEF Drops
<1>9. CASE Leaves(r, c)
  <2>1. cocktails[c] \in Cocktail
    BY <1>9, TurnAsks DEF Leaves, Tables
  <2>2. QED
    BY <1>1, <1>9, <2>1, SameColumns DEF Leaves
<1>10. QED
  BY <1>2, <1>3, <1>4, <1>5, <1>6, <1>7, <1>8, <1>9 DEF Alters

\* And stays so, unless its removal is known.
LEMMA DeletedStays ==
  ASSUME NEW r \in Requests, Turn(r), NEW c \in Slots, Hidden(c), cocktails'[c] # Null, cocktails'[c].owner # Null
  PROVE  cocktails'[c].deleted \/ Removed(c)
<1>1. Alters(r, c) /\ Copies(r) /\ Afresh
  BY DEF Turn, LibraryStep, Well, Rates
<1>2. CASE cocktails'[c] = cocktails[c]
  BY <1>2 DEF Hidden
<1>3. CASE Makes(r, c)
  BY <1>3 DEF Makes, Unnamed, Hidden
<1>4. CASE Saves(r, c) \/ Weighs(r, c)
  <2>1. Holds(r, c) /\ Saver(r)
    BY <1>4 DEF Saves, Weighs, Holds, Keeping, Rating, Saver
  <2>2. QED
    BY <1>1, <2>1 DEF Afresh
<1>5. CASE Frees(r, c)
  <2>1. runs[r].row[c] \in Cocktail
    BY <1>1, <1>5 DEF Frees, Copies
  <2>2. QED
    BY <1>5, <2>1, SameColumns DEF Frees
<1>6. CASE Drops(r, c)
  BY <1>6 DEF Drops
<1>7. CASE Leaves(r, c)
  <2>1. cocktails[c] \in Cocktail
    BY <1>7, TurnAsks DEF Leaves, Tables
  <2>2. SameRow(cocktails'[c], [cocktails[c] EXCEPT !.owner = Null]) => cocktails'[c].owner = Null
    BY <2>1 DEF SameRow, Cocktail
  <2>3. QED
    BY <1>7, <2>2 DEF Leaves
<1>8. QED
  BY <1>1, <1>2, <1>3, <1>4, <1>5, <1>6, <1>7 DEF Alters

LEMMA SoleStep ==
  ASSUME NEW r \in Requests, Turn(r), NEW u \in Users, ~Erased(u)', NEW e, Sole(u, e)'
  PROVE  Sole(u, e)
<1>1. \A c \in Slots : Belongs(c, u, e) => Belongs(c, u, e)'
  BY BelongsStep
<1>2. ~Erased(u) /\ u # Null
  BY TurnAsks, TypesAssumption
<1>3. ASSUME NEW c \in Slots, cocktails[c] # Null, cocktails[c].parent = e, cocktails[c].owner = u,
             cocktails[c].deleted \/ Removed(c)
      PROVE  FALSE
  <2>1. Belongs(c, u, e)'
    BY <1>1, <1>3 DEF Belongs
  <2>2. ~(cocktails[c].deleted \/ Removed(c))'
    BY <2>1 DEF Sole, Lost, Belongs
  <2>3. ~Removed(c)
    BY <2>2, RemovedStays
  <2>4. Hidden(c)
    BY <1>2, <1>3, <2>3 DEF Hidden
  <2>5. cocktails'[c].deleted
    BY <1>2, <2>1, <2>3, <2>4, DeletedStays DEF Belongs
  <2>6. QED
    BY <2>2, <2>5
<1>4. ~Lost(u, e)
  BY <1>3 DEF Lost
<1>5. \A c, d \in Slots : Belongs(c, u, e) /\ Belongs(d, u, e) => c = d
  BY <1>1 DEF Sole
<1>6. QED
  BY <1>4, <1>5 DEF Sole

\* What a user has rated, a step of somebody else's leaves as it is, and a cocktail
\* comes without a rating.
LEMMA RatingsStay ==
  ASSUME NEW r \in Requests, Turn(r), NEW u \in Users, ~Erased(u)',
         Ask(r).user # u \/ ~(RateStore(r) \/ MoveStore(r) \/ MoveRemove(r))
  PROVE  /\ \A t \in Externals : ratings'[<<u, t>>] = ratings[<<u, t>>]
         /\ \A c \in Slots, e \in Externals : Belongs(c, u, e) => ratings'[<<u, c>>] = ratings[<<u, c>>]
         /\ \A c \in Slots : cocktails[c] = Null => ratings'[<<u, c>>] = Null
<1>1. \A t \in Things : Counts(r, u, t)
  BY DEF Turn, RatingStep
<1>2. Externals \cap Slots = {} /\ Externals \subseteq Things /\ Slots \subseteq Things
  BY TypesAssumption DEF Slots, Things
<1>3. ~Erased(u) /\ Keyed
  BY TurnAsks DEF Turn, Rates
<1>4. \A c \in Slots : cocktails[c] = Null => ratings[<<u, c>>] = Null
  BY <1>3 DEF Keyed
<1>5. \A t \in Externals : ratings'[<<u, t>>] = ratings[<<u, t>>]
  BY <1>1, <1>2 DEF Counts
<1>6. \A c \in Slots, e \in Externals : Belongs(c, u, e) => ratings'[<<u, c>>] = ratings[<<u, c>>]
  BY <1>1, <1>2 DEF Counts
<1>7. \A c \in Slots : cocktails[c] = Null => ratings'[<<u, c>>] = Null
  BY <1>1, <1>2, <1>4 DEF Counts
<1>8. QED
  BY <1>5, <1>6, <1>7

\* What is shown stays where the ratings do.
LEMMA SaysStays ==
  ASSUME NEW r \in Requests, Turn(r), NEW u \in Users, ~Erased(u)', NEW e \in Externals,
         ratings'[<<u, e>>] = ratings[<<u, e>>],
         \A c \in Slots : Belongs(c, u, e) => ratings'[<<u, c>>] = ratings[<<u, c>>],
         \A c \in Slots : cocktails[c] = Null => ratings'[<<u, c>>] = Null,
         NEW v, Says(u, e, v)
  PROVE  Says(u, e, v)'
<1>1. \A c \in Slots : Belongs(c, u, e) => Belongs(c, u, e)'
  BY BelongsStep
<1>2. \A c \in Slots : Belongs(c, u, e)' => Belongs(c, u, e) \/ ratings'[<<u, c>>] = Null
  BY BelongsStep
<1>3. CASE \E c \in Slots : Belongs(c, u, e) /\ ratings[<<u, c>>] # Null /\ ratings[<<u, c>>] = v
  BY <1>1, <1>3 DEF Says
<1>4. CASE (\A c \in Slots : Belongs(c, u, e) => ratings[<<u, c>>] = Null) /\ ratings[<<u, e>>] = v
  BY <1>2, <1>4 DEF Says
<1>5. QED
  BY <1>3, <1>4 DEF Says

\* A user's own steps apart, a request gives what it gave.
LEMMA OthersGive ==
  ASSUME NEW r \in Requests, Turn(r), NEW s \in Requests, NEW u \in Users, u = Ask(s).user, u # Ask(r).user,
         ~Erased(u)'
  PROVE  /\ s # r /\ runs'[s] = runs[s] /\ Ask(s)' = Ask(s)
         /\ \A e : Kin(u, e, runs[s].c)' <=> Kin(u, e, runs[s].c)
         /\ \A e : Giving(s, e)' <=> Giving(s, e)
<1>1. s # r /\ runs'[s] = runs[s] /\ Ask(s)' = Ask(s)
  BY TurnAsks
<1>2. \A e : Kin(u, e, runs[s].c)' <=> Kin(u, e, runs[s].c)
  BY <1>1, BelongsStep DEF Kin
<1>3. \A e : Giving(s, e)' <=> Giving(s, e)
  BY <1>1, <1>2 DEF Giving, Kin, Belongs
<1>4. QED
  BY <1>1, <1>2, <1>3

LEMMA OthersFollow ==
  ASSUME NEW r \in Requests, Turn(r), NEW u \in Users, u # Ask(r).user, ~Erased(u)', NEW e \in Externals
  PROVE  Follows(u, e)'
<1>1. SUFFICES ASSUME Sole(u, e)'
               PROVE  \/ \E s \in Requests : Ask(s).user = u /\ Giving(s, e)' /\ Says(u, e, Ask(s).score)'
                      \/ Says(u, e, given[<<u, e>>])' /\ \A s \in Requests : Ask(s).user = u => ~Giving(s, e)'
  BY TurnAsks DEF Follows
<1>2. Sole(u, e) /\ ~Erased(u)
  BY <1>1, SoleStep, TurnAsks
<1>3. Follows(u, e)
  BY <1>2 DEF Turn, Rates
<1>4. \A v : Says(u, e, v) => Says(u, e, v)'
  <2>1. SUFFICES ASSUME NEW v, Says(u, e, v)
                 PROVE  Says(u, e, v)'
    OBVIOUS
  <2>2. /\ ratings'[<<u, e>>] = ratings[<<u, e>>]
        /\ \A c \in Slots : Belongs(c, u, e) => ratings'[<<u, c>>] = ratings[<<u, c>>]
        /\ \A c \in Slots : cocktails[c] = Null => ratings'[<<u, c>>] = Null
    BY RatingsStay
  <2>3. QED
    BY <2>1, <2>2, SaysStays
<1>5. \A s \in Requests : Ask(s).user = u => (Giving(s, e)' <=> Giving(s, e))
  BY OthersGive
<1>6. CASE \E s \in Requests : Ask(s).user = u /\ Giving(s, e) /\ Says(u, e, Ask(s).score)
  <2>1. PICK s \in Requests : Ask(s).user = u /\ Giving(s, e) /\ Says(u, e, Ask(s).score)
    BY <1>6
  <2>2. PICK v : v = Ask(s).score
    OBVIOUS
  <2>3. Says(u, e, v)'
    BY <1>4, <2>1, <2>2
  <2>4. v = Ask(s).score'
    BY <2>2, TurnAsks
  <2>5. Says(u, e, Ask(s).score)'
    BY <2>3, <2>4 DEF Says
  <2>6. QED
    BY <1>5, <2>1, <2>5
<1>7. CASE Says(u, e, given[<<u, e>>]) /\ \A s \in Requests : Ask(s).user = u => ~Giving(s, e)
  <2>1. given'[<<u, e>>] = given[<<u, e>>]
    <3>1. given' = given \/ RateSave(r)
      BY DEF Turn, RatingStep
    <3>2. <<u, e>> \in DOMAIN given
      BY DEF Turn, Rates
    <3>3. QED
      BY <3>1, <3>2 DEF RateSave
  <2>2. PICK v : v = given[<<u, e>>]
    OBVIOUS
  <2>3. Says(u, e, v)' /\ v = given'[<<u, e>>]
    BY <1>4, <1>7, <2>1, <2>2
  <2>4. Says(u, e, given[<<u, e>>])'
    BY <2>3 DEF Says
  <2>5. QED
    BY <1>5, <1>7, <2>4
<1>8. QED
  BY <1>2, <1>3, <1>6, <1>7 DEF Follows

LEMMA OthersAim ==
  ASSUME NEW r \in Requests, Turn(r), NEW s \in Requests, NEW u \in Users, u = Ask(s).user, u # Ask(r).user,
         ~Erased(u)'
  PROVE  Aims(s)' /\ Carries(s)'
<1>1. Aims(s) /\ Carries(s) 
  BY TurnAsks DEF Turn, Rates
<1>2. /\ runs'[s] = runs[s] /\ Ask(s)' = Ask(s)
      /\ \A e : Kin(u, e, runs[s].c)' <=> Kin(u, e, runs[s].c)
  BY OthersGive
<1>3. PICK on, c : on = Ask(s).on /\ c = runs[s].c
  OBVIOUS
<1>4. /\ \A t \in Externals : ratings'[<<u, t>>] = ratings[<<u, t>>]
      /\ \A d \in Slots, e \in Externals : Belongs(d, u, e) => ratings'[<<u, d>>] = ratings[<<u, d>>]
  BY <1>3, RatingsStay
<1>5. \A d \in Slots : \A e : Belongs(d, u, e)' <=> Belongs(d, u, e)
  BY <1>3, BelongsStep
<1>6. Sole(u, on)' => Sole(u, on)
  BY <1>3, SoleStep
<1>7. \A e \in Externals : Kin(u, e, c) => ratings'[<<u, c>>] = ratings[<<u, c>>]
  BY <1>4 DEF Kin
<1>8. Carries(s)'
  <2>1. SUFFICES ASSUME Ask(s).kind = "prepare", runs[s].pc \in Carrying
                 PROVE  /\ on \in Externals /\ c \in Slots /\ Belongs(c, u, on)'
                        /\ runs[s].pc = "move-remove" <=> ratings'[<<u, c>>] # Null
                        /\ runs[s].pc \in {"move-find", "move-store"} => runs[s].row = ratings'[<<u, on>>] /\ runs[s].row # Null
                        /\ runs[s].pc = "move-store" => runs[s].fav = Null
    BY <1>2, <1>3 DEF Carries, Belongs
  <2>2. QED
    BY <1>1, <1>3, <1>4, <1>5, <2>1 DEF Carries
<1>9. Aims(s)'
  <2>1. SUFFICES ASSUME Ask(s).kind = "rate", runs[s].pc \in Rating
                 PROVE  /\ on \in Externals => Kin(u, on, c)'
                        /\ c \in Externals => c = on /\ (Sole(u, on)' => \A d \in Slots : ~Belongs(d, u, on)')
                        /\ \A e \in Externals : runs[s].pc = "rate-store" /\ Kin(u, e, c)' => runs[s].fav = ratings'[<<u, c>>]
    BY <1>2, <1>3 DEF Aims, Belongs, Kin, Sole, Lost, Removed
  <2>2. \A e : Kin(u, e, c)' <=> Kin(u, e, c)
    BY <1>2, <1>3 DEF Kin, Belongs
  <2>3. QED
    BY <1>1, <1>3, <1>5, <1>6, <1>7, <2>1, <2>2 DEF Aims
<1>10. QED
  BY <1>8, <1>9

\* Of the user's own, only the request that takes the step is at work.
LEMMA OwnSays ==
  ASSUME NEW r \in Requests, Turn(r), NEW u \in Users, u = Ask(r).user, ~Erased(u)', NEW e \in Externals, Sole(u, e)'
  PROVE  Sole(u, e) /\ Says(u, e, IF Giving(r, e) THEN Ask(r).score ELSE given[<<u, e>>])
<1>1. Sole(u, e) /\ ~Erased(u)
  BY SoleStep, TurnAsks
<1>2. Follows(u, e)
  BY <1>1 DEF Turn, Rates
<1>3. \A s \in Requests : Ask(s).user = u /\ Giving(s, e) => s = r
  BY OnlyOne DEF Giving, Running, Ends
<1>4. CASE \E s \in Requests : Ask(s).user = u /\ Giving(s, e) /\ Says(u, e, Ask(s).score)
  BY <1>1, <1>3, <1>4
<1>5. CASE Says(u, e, given[<<u, e>>]) /\ \A s \in Requests : Ask(s).user = u => ~Giving(s, e)
  BY <1>1, <1>5
<1>6. QED
  BY <1>1, <1>2, <1>4, <1>5 DEF Follows

LEMMA OwnFollows ==
  ASSUME NEW r \in Requests, Turn(r), NEW u \in Users, u = Ask(r).user, ~Erased(u)', NEW e \in Externals,
         NEW v, v = (IF Giving(r, e)' THEN Ask(r).score ELSE given'[<<u, e>>]), Sole(u, e)' => Says(u, e, v)'
  PROVE  Follows(u, e)'
<1>1. SUFFICES ASSUME Sole(u, e)'
               PROVE  \/ \E s \in Requests : Ask(s).user = u /\ Giving(s, e)' /\ Says(u, e, Ask(s).score)'
                      \/ Says(u, e, given[<<u, e>>])' /\ \A s \in Requests : Ask(s).user = u => ~Giving(s, e)'
  BY TurnAsks DEF Follows
<1>2. \A s \in Requests : Ask(s).user = u /\ Giving(s, e)' => s = r
  BY OnlyOne, TurnAsks DEF Giving, Running, Ends
<1>3. CASE Giving(r, e)'
  <2>1. v = Ask(r).score'
    BY <1>3, TurnAsks
  <2>2. Says(u, e, Ask(r).score)'
    BY <1>1, <2>1 DEF Says
  <2>3. QED
    BY <1>3, <2>2
<1>4. CASE ~Giving(r, e)'
  <2>1. Says(u, e, given[<<u, e>>])'
    BY <1>1, <1>4 DEF Says
  <2>2. QED
    BY <1>2, <1>4, <2>1
<1>5. QED
  BY <1>3, <1>4

LEMMA StillFollows ==
  ASSUME NEW r \in Requests, Turn(r), NEW u \in Users, u = Ask(r).user, ~Erased(u)', NEW e \in Externals,
         ratings'[<<u, e>>] = ratings[<<u, e>>],
         \A c \in Slots : Belongs(c, u, e) => ratings'[<<u, c>>] = ratings[<<u, c>>],
         \A c \in Slots : cocktails[c] = Null => ratings'[<<u, c>>] = Null,
         Giving(r, e)' <=> Giving(r, e), given'[<<u, e>>] = given[<<u, e>>]
  PROVE  Follows(u, e)'
<1>1. PICK v : v = IF Giving(r, e) THEN Ask(r).score ELSE given[<<u, e>>]
  OBVIOUS
<1>2. ASSUME Sole(u, e)'
      PROVE  Says(u, e, v)'
  <2>1. Says(u, e, v)
    BY <1>1, <1>2, OwnSays
  <2>2. QED
    BY <2>1, SaysStays
<1>3. v = (IF Giving(r, e)' THEN Ask(r).score ELSE given'[<<u, e>>])
  BY <1>1
<1>4. QED
  BY <1>2, <1>3, OwnFollows

\* Requests that neither rate nor import.
LEMMA PlainSettles ==
  ASSUME NEW r \in Requests, Turn(r), Ask(r).kind \notin {"rate", "prepare"}, NEW u \in Users, u = Ask(r).user, ~Erased(u)'
  PROVE  (\A e \in Externals : Follows(u, e)') /\ Aims(r)' /\ Carries(r)'
<1>1. ~(RateStore(r) \/ MoveStore(r) \/ MoveRemove(r) \/ RateSave(r))
  BY DEF RateStore, MoveStore, MoveRemove, RateSave, At
<1>2. given' = given
  BY <1>1 DEF Turn, RatingStep
<1>3. \A e : ~Giving(r, e)' /\ ~Giving(r, e)
  BY TurnAsks DEF Giving
<1>4. \A e \in Externals : Follows(u, e)'
  BY <1>1, <1>2, <1>3, RatingsStay, StillFollows
<1>5. Aims(r)' /\ Carries(r)'
  BY TurnAsks DEF Aims, Carries
<1>6. QED
  BY <1>4, <1>5

\* An import takes the rating of the remote cocktail over before that one goes.
LEMMA CarriesNext ==
  ASSUME NEW r \in Requests, Turn(r), NEW u, NEW on, NEW c, u = Ask(r).user, on = Ask(r).on, c = runs'[r].c,
         runs'[r].pc \in Carrying =>
            /\ on \in Externals /\ c \in Slots /\ Belongs(c, u, on)'
            /\ runs'[r].pc = "move-remove" <=> ratings'[<<u, c>>] # Null
            /\ runs'[r].pc \in {"move-find", "move-store"} => runs'[r].row = ratings'[<<u, on>>] /\ runs'[r].row # Null
            /\ runs'[r].pc = "move-store" => runs'[r].fav = Null
  PROVE  Carries(r)'
  BY TurnAsks DEF Carries, Belongs

LEMMA ImportSettles ==
  ASSUME NEW r \in Requests, Turn(r), Ask(r).kind = "prepare", NEW u \in Users, u = Ask(r).user, ~Erased(u)',
         PrepareFind(r) \/ Insert(r) \/ MigrateRead(r) \/ MigrateSave(r)
  PROVE  Carries(r)'
<1>1. RunShape /\ Copies(r)' /\ CopiesFit(r) /\ Ask(r)' = Ask(r) /\ Requests' = Requests
  BY TurnAsks DEF Turn, Well, FavoriteStep, CopiesFit
<1>2. CASE PrepareFind(r)
  <2>1. runs'[r].pc \notin Carrying
    BY <1>1, <1>2, PrepareFindDoes DEF Carrying
  <2>2. QED
    BY <2>1, CarriesNext
<1>3. CASE Insert(r)
  <2>1. runs'[r].pc = "failed" \/ \E c \in Slots : cocktails[c] = Null /\ runs'[r].c = c /\ runs'[r].pc \in {"favorite", "done"}
    BY <1>1, <1>3, InsertDoes
  <2>2. runs[r].pc = "insert" /\ UNCHANGED ratings
    BY <1>3 DEF Insert
  <2>3. CASE runs'[r].pc \notin Carrying
    BY <2>3, CarriesNext
  <2>4. CASE runs'[r].pc = "favorite"
    <3>1. PICK c \in Slots : cocktails[c] = Null /\ runs'[r].c = c
      BY <2>1, <2>4
    <3>2. ratings'[<<u, c>>] = Null
      BY <3>1, <2>2, TurnAsks DEF Turn, Rates, Keyed
    <3>3. PICK on \in Externals : on = Ask(r).on
      BY <1>1, <2>4 DEF Copies, Importing
    <3>4. Belongs(c, u, on)'
      BY <1>1, <2>2, <2>4, <3>1, <3>3 DEF CopiesFit, Importing, Belongs
    <3>5. QED
      BY <2>4, <3>1, <3>2, <3>3, <3>4, CarriesNext
  <2>5. QED
    BY <2>1, <2>3, <2>4 DEF Carrying
<1>4. CASE MigrateRead(r) \/ MigrateSave(r)
  <2>1. /\ runs'[r].c = runs[r].c /\ runs[r].pc \in {"favorite", "repoint"} /\ UNCHANGED <<cocktails, ratings>>
        /\ runs'[r].pc \in {"favorite", "repoint", "done", "rating"}
    <3>1. runs'[r].c = runs[r].c /\ runs[r].pc \in {"favorite", "repoint"} /\ UNCHANGED <<cocktails, ratings>>
      BY <1>1, <1>4, MigrationDoes DEF MigrateRead, MigrateSave, Keep, tables
    <3>2. PICK pc \in {"favorite", "rating"} : pc = Migrated(r)
      BY DEF Migrated
    <3>3. \/ \E fav : Go(r, [runs[r] EXCEPT !.pc = "repoint", !.fav = fav])
          \/ Go(r, [runs[r] EXCEPT !.pc = pc, !.round = 2])
      BY <1>4, <3>2 DEF MigrateRead, MigrateSave
    <3>4. Lands(Ask(r).kind, "repoint") /\ Lands(Ask(r).kind, pc)
      BY DEF Lands, Place, Talking
    <3>5. QED
      BY <1>1, <3>1, <3>3, <3>4, FavNextStep, RoundStep
  <2>2. Carries(r)
    BY TurnAsks DEF Turn, Rates
  <2>3. /\ Ask(r).on \in Externals /\ runs[r].c \in Slots /\ Belongs(runs[r].c, u, Ask(r).on)
        /\ ratings[<<u, runs[r].c>>] = Null
    BY <2>1, <2>2 DEF Carries, Carrying
  <2>4. PICK c, on : c = runs[r].c /\ on = Ask(r).on
    OBVIOUS
  <2>5. Belongs(c, u, on)'
    BY <2>1, <2>3, <2>4 DEF Belongs
  <2>6. QED
    BY <2>1, <2>3, <2>4, <2>5, CarriesNext
<1>5. QED
  BY <1>2, <1>3, <1>4

\* What an import that has come to its rating has found so far.
LEMMA Carried ==
  ASSUME NEW r \in Requests, Turn(r), NEW u \in Users, u = Ask(r).user, ~Erased(u)', MovesRating(r), NEW c, c = runs[r].c,
         NEW on, on = Ask(r).on
  PROVE  /\ runs'[r].c = c /\ on \in Externals /\ c \in Slots /\ Belongs(c, u, on) /\ Belongs(c, u, on)'
         /\ runs[r].pc = "move-remove" <=> ratings[<<u, c>>] # Null
         /\ runs[r].pc \in {"move-find", "move-store"} => runs[r].row = ratings[<<u, on>>] /\ runs[r].row # Null
         /\ runs[r].pc = "move-store" => runs[r].fav = Null
         /\ cocktails' = cocktails /\ u \in users /\ Ask(r).kind = "prepare" /\ given' = given
<1>1. Ask(r).kind = "prepare" /\ runs[r].pc \in Carrying /\ Running(r) /\ cocktails' = cocktails /\ given' = given
  BY DEF MovesRating, MoveRead, MoveFind, MoveStore, MoveRemove, At, Carrying, Running, Ends, Keep, tables
<1>2. Carries(r) /\ RunShape
  BY TurnAsks DEF Turn, Rates, Well
<1>3. /\ on \in Externals /\ c \in Slots /\ Belongs(c, u, on)
      /\ runs[r].pc = "move-remove" <=> ratings[<<u, c>>] # Null
      /\ runs[r].pc \in {"move-find", "move-store"} => runs[r].row = ratings[<<u, on>>] /\ runs[r].row # Null
      /\ runs[r].pc = "move-store" => runs[r].fav = Null
  BY <1>1, <1>2 DEF Carries
<1>4. runs'[r].c = c
  BY <1>2, MigrationDoes DEF MovesRating
<1>5. u \in users
  BY <1>1 DEF Turn, Present
<1>6. Belongs(c, u, on)'
  BY <1>1, <1>3 DEF Belongs
<1>7. QED
  BY <1>1, <1>3, <1>4, <1>5, <1>6

LEMMA MoveSettles ==
  ASSUME NEW r \in Requests, Turn(r), NEW u \in Users, u = Ask(r).user, ~Erased(u)', MovesRating(r)
  PROVE  Carries(r)'
<1>1. PICK c, on : c = runs[r].c /\ on = Ask(r).on
  OBVIOUS
<1>2. /\ runs'[r].c = c /\ on \in Externals /\ c \in Slots /\ Belongs(c, u, on) /\ Belongs(c, u, on)'
      /\ runs[r].pc = "move-remove" <=> ratings[<<u, c>>] # Null
      /\ runs[r].pc \in {"move-find", "move-store"} => runs[r].row = ratings[<<u, on>>] /\ runs[r].row # Null
      /\ runs[r].pc = "move-store" => runs[r].fav = Null
      /\ cocktails' = cocktails /\ u \in users /\ Ask(r).kind = "prepare"
  BY <1>1, Carried
<1>3. RunShape /\ \A pc \in Carrying \cup {"done"} : Lands(Ask(r).kind, pc)
  BY <1>2 DEF Turn, Well, Lands, Place, Talking, Carrying
<1>4. CASE MoveRead(r)
  <2>1. PICK score, pc : /\ score = ratings[<<u, on>>] /\ pc = (IF score = Null THEN "done" ELSE "move-find")
                         /\ pc \in Carrying \cup {"done"}
    BY DEF Carrying
  <2>2. runs[r].pc = "rating" /\ UNCHANGED ratings /\ Go(r, [runs[r] EXCEPT !.row = score, !.pc = pc])
    BY <1>1, <1>4, <2>1 DEF MoveRead, At, Keep, tables
  <2>3. runs'[r].pc = pc /\ runs'[r].row = score
    BY <1>3, <2>1, <2>2, RowStep
  <2>4. QED
    BY <1>1, <1>2, <2>1, <2>2, <2>3, CarriesNext DEF Carrying
<1>5. CASE MoveFind(r)
  <2>1. PICK score : score = ratings[<<u, c>>]
    OBVIOUS
  <2>2. runs[r].pc = "move-find" /\ UNCHANGED ratings /\ Go(r, [runs[r] EXCEPT !.fav = score, !.pc = "move-store"])
    BY <1>1, <1>5, <2>1 DEF MoveFind, At, Keep, tables
  <2>3. runs'[r].pc = "move-store" /\ runs'[r].row = runs[r].row /\ runs'[r].fav = score
    BY <1>3, <2>2, FavStep DEF Carrying
  <2>4. QED
    BY <1>1, <1>2, <2>1, <2>2, <2>3, CarriesNext
<1>6. CASE MoveStore(r)
  <2>1. runs[r].pc = "move-store" /\ cocktails[c] # Null
    BY <1>2, <1>6 DEF MoveStore, At, Belongs
  <2>2. To(r, "move-remove") /\ ratings' = [ratings EXCEPT ![<<u, c>>] = runs[r].row]
    BY <1>1, <1>2, <1>6, <2>1 DEF MoveStore
  <2>3. runs'[r].pc = "move-remove" /\ runs'[r].row = runs[r].row
    BY <1>3, <2>2, ToStep DEF Carrying
  <2>4. ratings'[<<u, c>>] # Null
    BY <1>2, <2>1, <2>2, TurnAsks DEF Scored, Things
  <2>5. QED
    BY <1>1, <1>2, <2>3, <2>4, CarriesNext
<1>7. CASE MoveRemove(r)
  <2>1. runs'[r].pc = "done"
    BY <1>3, <1>7, ToStep DEF MoveRemove
  <2>2. QED
    BY <2>1, CarriesNext DEF Carrying
<1>8. QED
  BY <1>4, <1>5, <1>6, <1>7 DEF MovesRating

\* The import shows the score it has taken over from then on.
LEMMA MoveStoreFollows ==
  ASSUME NEW r \in Requests, Turn(r), NEW u \in Users, u = Ask(r).user, ~Erased(u)', MoveStore(r), NEW e \in Externals
  PROVE  Follows(u, e)'
<1>1. PICK c, on : c = runs[r].c /\ on = Ask(r).on
  OBVIOUS
<1>2. /\ on \in Externals /\ c \in Slots /\ Belongs(c, u, on) /\ Belongs(c, u, on)' /\ ratings[<<u, c>>] = Null
      /\ runs[r].row = ratings[<<u, on>>] /\ runs[r].row # Null /\ runs[r].fav = Null
      /\ cocktails' = cocktails /\ u \in users /\ Ask(r).kind = "prepare" /\ given' = given
  BY <1>1, Carried DEF MovesRating, MoveStore, At
<1>3. ratings' = [ratings EXCEPT ![<<u, c>>] = runs[r].row]
  BY <1>1, <1>2 DEF MoveStore, Belongs
<1>4. Scored /\ Externals \cap Slots = {} /\ Externals \subseteq Things /\ Slots \subseteq Things
  BY TurnAsks, TypesAssumption DEF Slots, Things
<1>5. /\ ratings'[<<u, c>>] = runs[r].row
      /\ \A t \in Things : t # c => ratings'[<<u, t>>] = ratings[<<u, t>>]
  BY <1>2, <1>3, <1>4 DEF Scored
<1>6. \A q : ~Giving(r, q) /\ ~Giving(r, q)'
  BY <1>2, TurnAsks DEF Giving
<1>7. CASE e = on
  <2>1. PICK v : v = given[<<u, e>>]
    OBVIOUS
  <2>2. ASSUME Sole(u, e)'
        PROVE  Says(u, e, v)'
    <3>1. Sole(u, e) /\ Says(u, e, v)
      BY <1>6, <2>1, <2>2, OwnSays
    <3>2. ratings[<<u, e>>] = v
      BY <1>2, <1>7, <3>1 DEF Says, Sole
    <3>3. QED
      BY <1>2, <1>5, <1>7, <3>2 DEF Says
  <2>3. QED
    BY <1>2, <1>6, <2>1, <2>2, OwnFollows
<1>8. CASE e # on
  <2>1. \A d \in Slots : Belongs(d, u, e) => d # c
    BY <1>2, <1>8 DEF Belongs
  <2>2. \A d \in Slots : cocktails[d] = Null => d # c /\ ratings[<<u, d>>] = Null
    BY <1>2, TurnAsks DEF Belongs, Turn, Rates, Keyed
  <2>3. QED
    BY <1>2, <1>4, <1>5, <1>6, <2>1, <2>2, StillFollows
<1>9. QED
  BY <1>7, <1>8

LEMMA MoveRemoveFollows ==
  ASSUME NEW r \in Requests, Turn(r), NEW u \in Users, u = Ask(r).user, ~Erased(u)', MoveRemove(r), NEW e \in Externals
  PROVE  Follows(u, e)'
<1>1. PICK c, on : c = runs[r].c /\ on = Ask(r).on
  OBVIOUS
<1>2. /\ on \in Externals /\ c \in Slots /\ Belongs(c, u, on) /\ Belongs(c, u, on)' /\ ratings[<<u, c>>] # Null
      /\ cocktails' = cocktails /\ u \in users /\ Ask(r).kind = "prepare" /\ given' = given
  BY <1>1, Carried DEF MovesRating, MoveRemove, At
<1>3. ratings' = [ratings EXCEPT ![<<u, on>>] = Null]
  BY <1>1 DEF MoveRemove
<1>4. Scored /\ Externals \cap Slots = {} /\ Externals \subseteq Things /\ Slots \subseteq Things
  BY TurnAsks, TypesAssumption DEF Slots, Things
<1>5. \A t \in Things : t # on => ratings'[<<u, t>>] = ratings[<<u, t>>]
  BY <1>2, <1>3, <1>4 DEF Scored
<1>6. \A q : ~Giving(r, q) /\ ~Giving(r, q)'
  BY <1>2, TurnAsks DEF Giving
<1>7. CASE e = on
  <2>1. PICK v : v = given[<<u, e>>]
    OBVIOUS
  <2>2. ASSUME Sole(u, e)'
        PROVE  Says(u, e, v)'
    <3>1. Sole(u, e) /\ Says(u, e, v)
      BY <1>6, <2>1, <2>2, OwnSays
    <3>2. ratings[<<u, c>>] = v
      BY <1>2, <1>7, <3>1 DEF Says, Sole
    <3>3. ratings'[<<u, c>>] = v
      BY <1>2, <1>4, <1>5, <3>2
    <3>4. QED
      BY <1>2, <1>7, <3>2, <3>3 DEF Says
  <2>3. QED
    BY <1>2, <1>6, <2>1, <2>2, OwnFollows
<1>8. CASE e # on
  <2>1. \A d \in Slots : cocktails[d] = Null => ratings[<<u, d>>] = Null
    BY TurnAsks DEF Turn, Rates, Keyed
  <2>2. ratings'[<<u, e>>] = ratings[<<u, e>>] /\ \A d \in Slots : ratings'[<<u, d>>] = ratings[<<u, d>>]
    BY <1>2, <1>4, <1>5, <1>8
  <2>3. QED
    BY <1>2, <1>6, <2>1, <2>2, StillFollows
<1>9. QED
  BY <1>7, <1>8

LEMMA PrepareSettles ==
  ASSUME NEW r \in Requests, Turn(r), Ask(r).kind = "prepare", NEW u \in Users, u = Ask(r).user, ~Erased(u)'
  PROVE  (\A e \in Externals : Follows(u, e)') /\ Aims(r)' /\ Carries(r)'
<1>1. PrepareFind(r) \/ Insert(r) \/ MigrateRead(r) \/ MigrateSave(r) \/ MovesRating(r)
  BY DEF Turn, RatingStep
<1>2. Carries(r)'
  BY <1>1, ImportSettles, MoveSettles
<1>3. Aims(r)'
  BY TurnAsks DEF Aims
<1>4. ~RateStore(r) /\ ~RateSave(r) /\ \A e : ~Giving(r, e)' /\ ~Giving(r, e)
  BY TurnAsks DEF Giving, RateStore, RateSave, At
<1>5. given' = given
  BY <1>4 DEF Turn, RatingStep
<1>6. \A e \in Externals : Follows(u, e)'
  <2>1. CASE MoveStore(r) \/ MoveRemove(r)
    BY <2>1, MoveStoreFollows, MoveRemoveFollows
  <2>2. CASE ~(MoveStore(r) \/ MoveRemove(r))
    BY <1>4, <1>5, <2>2, RatingsStay, StillFollows
  <2>3. QED
    BY <2>1, <2>2
<1>7. QED
  BY <1>2, <1>3, <1>6

LEMMA AimsNext ==
  ASSUME NEW r \in Requests, Turn(r), NEW u, NEW on, NEW c, u = Ask(r).user, on = Ask(r).on, c = runs'[r].c,
         runs'[r].pc \in Rating =>
            /\ on \in Externals => Kin(u, on, c)'
            /\ c \in Externals => c = on /\ (Sole(u, on)' => \A d \in Slots : ~Belongs(d, u, on)')
            /\ \A e \in Externals : runs'[r].pc = "rate-store" /\ Kin(u, e, c)' => runs'[r].fav = ratings'[<<u, c>>]
  PROVE  Aims(r)'
  BY TurnAsks DEF Aims, Kin, Belongs, Sole, Lost, Removed

\* Rating makes no cocktail.
LEMMA RateBelongs ==
  ASSUME NEW r \in Requests, Turn(r), Ask(r).kind = "rate", NEW u \in Users, u = Ask(r).user, ~Erased(u)'
  PROVE  /\ \A c \in Slots : \A e : Belongs(c, u, e)' <=> Belongs(c, u, e)
         /\ \A c, e : Kin(u, e, c)' <=> Kin(u, e, c)
<1>1. \A c \in Slots : \A e : Belongs(c, u, e)' <=> Belongs(c, u, e)
  BY BelongsStep
<1>2. QED
  BY <1>1 DEF Kin

\* What a request that rates has aimed at.
LEMMA Aimed ==
  ASSUME NEW r \in Requests, Turn(r), Ask(r).kind = "rate", runs[r].pc \in Rating,
         NEW u \in Users, u = Ask(r).user, ~Erased(u)', NEW c, c = runs[r].c, NEW on, on = Ask(r).on
  PROVE  /\ c \in Things /\ u \in users /\ ~Erased(u)
         /\ on \in Externals => Kin(u, on, c)
         /\ c \in Externals => c = on /\ (Sole(u, on) => \A d \in Slots : ~Belongs(d, u, on))
         /\ \A e \in Externals : runs[r].pc = "rate-store" /\ Kin(u, e, c) => runs[r].fav = ratings[<<u, c>>]
<1>1. Aims(r) /\ ~Erased(u) /\ Copies(r) /\ Present
  BY TurnAsks DEF Turn, Rates, Well
<1>2. Running(r)
  BY DEF Rating, Running, Ends
<1>3. QED
  BY <1>1, <1>2 DEF Aims, Copies, Present

LEMMA TargetSettles ==
  ASSUME NEW r \in Requests, Turn(r), Ask(r).kind = "rate", NEW u \in Users, u = Ask(r).user, ~Erased(u)', RateTarget(r)
  PROVE  Aims(r)' /\ \A e : ~Giving(r, e) /\ ~Giving(r, e)'
<1>1. PICK on : on = Ask(r).on
  OBVIOUS
<1>2. RunShape /\ runs[r].pc = "new" /\ UNCHANGED <<cocktails, ratings>> /\ Externals \cap Slots = {}
  <2>1. Externals \cap Slots = {}
    BY TypesAssumption DEF Slots
  <2>2. RunShape /\ runs[r].pc = "new" /\ UNCHANGED <<cocktails, ratings>>
    BY DEF Turn, Well, RateTarget, Starts, At, Keep, tables
  <2>3. QED
    BY <2>1, <2>2
<1>3. runs'[r].pc \in {"rate-find", "refused"}
  BY <1>2, RateTargetDoes
<1>4. ASSUME runs'[r].pc = "rate-find"
      PROVE  Aims(r)'
  <2>1. PICK t \in Rated(u, on) :
          Go(r, [Idle EXCEPT !.pc = "rate-find", !.c = t, !.row = IF t \in Slots THEN cocktails[t] ELSE Null])
    <3>1. ~To(r, "refused")
      BY <1>2, <1>4, ToStep DEF Lands, Place, Talking
    <3>2. QED
      BY <1>1, <3>1 DEF RateTarget
  <2>2. PICK row : row = IF t \in Slots THEN cocktails[t] ELSE Null
    OBVIOUS
  <2>3. Go(r, [Idle EXCEPT !.pc = "rate-find", !.c = t, !.row = row])
    BY <2>1, <2>2
  <2>4. runs'[r].c = t
    <3>1. Lands(Ask(r).kind, "rate-find")
      BY DEF Lands, Place, Talking
    <3>2. QED
      BY <1>2, <2>3, <3>1, ReadStep
  <2>5. on \in Externals => Kin(u, on, t)
    <3>1. on \in Externals => t \in OwnForks(u, on) \/ t = on
      BY <1>2, <2>1 DEF Rated, Live
    <3>2. t \in OwnForks(u, on) => t \in Slots /\ Belongs(t, u, on)
      BY DEF OwnForks, Forks, Live, Belongs
    <3>3. QED
      BY <3>1, <3>2 DEF Kin
  <2>6. t \in Externals => t = on /\ (Sole(u, on) => \A d \in Slots : ~Belongs(d, u, on))
    <3>1. SUFFICES ASSUME t \in Externals
                   PROVE  t = on /\ (Sole(u, on) => \A d \in Slots : ~Belongs(d, u, on))
      OBVIOUS
    <3>2. t = on /\ OwnForks(u, on) = {}
      BY <1>2, <2>1, <3>1 DEF Rated, Live, OwnForks, Forks
    <3>3. \A d \in Slots : Belongs(d, u, on) => cocktails[d].deleted
      BY <3>2 DEF OwnForks, Forks, Live, Belongs
    <3>4. \A d \in Slots : Belongs(d, u, on) => Lost(u, on)
      BY <3>3 DEF Lost, Belongs
    <3>5. QED
      BY <3>2, <3>4 DEF Sole
  <2>7. Kin(u, on, t)' <=> Kin(u, on, t)
    BY RateBelongs
  <2>8. Sole(u, on)' => Sole(u, on)
    BY SoleStep
  <2>9. \A d \in Slots : Belongs(d, u, on)' <=> Belongs(d, u, on)
    BY RateBelongs
  <2>10. QED
    BY <1>1, <1>4, <2>4, <2>5, <2>6, <2>7, <2>8, <2>9, AimsNext
<1>5. ASSUME runs'[r].pc = "refused"
      PROVE  Aims(r)'
  BY <1>5, AimsNext DEF Rating
<1>6. \A e : ~Giving(r, e) /\ ~Giving(r, e)'
  BY <1>2, <1>3 DEF Giving
<1>7. QED
  BY <1>3, <1>4, <1>5, <1>6

LEMMA RatingAims ==
  ASSUME NEW r \in Requests, Turn(r), Ask(r).kind = "rate", NEW u \in Users, u = Ask(r).user, ~Erased(u)',
         RateFind(r) \/ RateStore(r) \/ RateAverage(r) \/ RateSave(r)
  PROVE  Aims(r)'
<1>1. PICK c, on : c = runs[r].c /\ on = Ask(r).on
  OBVIOUS
<1>2. runs[r].pc \in Rating /\ runs'[r].c = c /\ RunShape
  BY <1>1, RatingDoes DEF Turn, Well
<1>3. /\ on \in Externals => Kin(u, on, c)
      /\ c \in Externals => c = on /\ (Sole(u, on) => \A d \in Slots : ~Belongs(d, u, on))
  BY <1>1, <1>2, Aimed
<1>4. /\ \A d \in Slots : Belongs(d, u, on)' <=> Belongs(d, u, on)
      /\ Kin(u, on, c)' <=> Kin(u, on, c)
      /\ Sole(u, on)' => Sole(u, on)
  BY RateBelongs, SoleStep
<1>5. ASSUME runs'[r].pc = "rate-store"
      PROVE  runs'[r].fav = ratings'[<<u, c>>]
  <2>1. \A pc \in {"failed", "average", "done", "rate-save", "rate-store"} : Lands(Ask(r).kind, pc)
    BY DEF Lands, Place, Talking
  <2>2. CASE RateFind(r)
    <3>1. PICK score : score = ratings[<<u, c>>]
      OBVIOUS
    <3>2. Go(r, [runs[r] EXCEPT !.fav = score, !.pc = "rate-store"]) /\ UNCHANGED ratings
      BY <1>1, <2>2, <3>1 DEF RateFind, Keep, tables
    <3>3. runs'[r].fav = score
      BY <1>2, <2>1, <3>2, FavStep
    <3>4. QED
      BY <3>1, <3>2, <3>3
  <2>3. CASE RateStore(r) \/ RateSave(r)
    <3>1. \E pc \in {"failed", "average", "done"} : To(r, pc)
      BY <2>3 DEF RateStore, RateSave
    <3>2. QED
      BY <1>2, <1>5, <2>1, <3>1, ToStep
  <2>4. CASE RateAverage(r)
    <3>1. \E row : Go(r, [runs[r] EXCEPT !.row = row, !.pc = "rate-save"])
      <4>1. PICK row : row = IF runs[r].c \in Slots THEN [runs[r].row EXCEPT !.avg = Average(runs[r].c)] ELSE Null
        OBVIOUS
      <4>2. Go(r, [runs[r] EXCEPT !.row = row, !.pc = "rate-save"])
        BY <1>2, <2>4, <4>1 DEF RateAverage, RunShape, Fits
      <4>3. QED
        BY <4>2
    <3>2. QED
      BY <1>2, <1>5, <2>1, <3>1, RowStep
  <2>5. QED
    BY <2>2, <2>3, <2>4
<1>6. QED
  BY <1>1, <1>2, <1>3, <1>4, <1>5, AimsNext

\* The score is shown as soon as it is stored.
LEMMA RateStoreFollows ==
  ASSUME NEW r \in Requests, Turn(r), NEW u \in Users, u = Ask(r).user, ~Erased(u)', RateStore(r), NEW e \in Externals
  PROVE  Follows(u, e)'
<1>1. PICK c, on, score : c = runs[r].c /\ on = Ask(r).on /\ score = Ask(r).score
  OBVIOUS
<1>2. /\ Ask(r).kind = "rate" /\ runs[r].pc = "rate-store" /\ RunShape /\ score \in 1..5 /\ score # Null
  BY <1>1, Asked, NullAssumption DEF RateStore, At, Turn, Well
<1>3. /\ c \in Things /\ u \in users
      /\ c \in Externals => c = on /\ (Sole(u, on) => \A d \in Slots : ~Belongs(d, u, on))
      /\ Kin(u, e, c) => runs[r].fav = ratings[<<u, c>>]
  BY <1>1, <1>2, Aimed DEF Rating
<1>4. /\ \A d \in Slots : \A q : Belongs(d, u, q)' <=> Belongs(d, u, q)
      /\ \A d, q : Kin(u, q, d)' <=> Kin(u, q, d)
  BY <1>2, RateBelongs
<1>5. Scored /\ Externals \cap Slots = {} /\ Externals \subseteq Things /\ Slots \subseteq Things
  BY TurnAsks, TypesAssumption DEF Slots, Things
<1>6. \/ To(r, "failed") /\ ratings' = ratings
      \/ /\ To(r, "average")
         /\ ratings' = ratings \/ ratings' = [ratings EXCEPT ![<<u, c>>] = score]
         /\ runs[r].fav # Null \/ ratings[<<u, c>>] = Null
         /\ ~(runs[r].fav # Null /\ ratings[<<u, c>>] = Null) => ratings' = [ratings EXCEPT ![<<u, c>>] = score]
         /\ runs[r].fav # Null /\ ratings[<<u, c>>] = Null => ratings' = ratings
         /\ runs[r].fav = Null /\ c \in Slots => cocktails[c] # Null
  BY <1>1 DEF RateStore
<1>7. given' = given /\ \A q : ~Giving(r, q)
  BY <1>2 DEF RateStore, Keep, Giving
<1>8. \A t \in Things : t # c => ratings'[<<u, t>>] = ratings[<<u, t>>]
  BY <1>3, <1>5, <1>6 DEF Scored
<1>9. runs'[r].c = c
  BY <1>1, <1>2, RatingDoes
<1>10. \A d \in Slots : cocktails[d] = Null => ratings[<<u, d>>] = Null
  BY TurnAsks DEF Turn, Rates, Keyed
<1>11. CASE To(r, "failed") /\ ratings' = ratings
  <2>1. runs'[r].pc = "failed"
    BY <1>2, <1>11, ToStep DEF Lands, Place, Talking
  <2>2. ~Giving(r, e)'
    BY <2>1 DEF Giving
  <2>3. QED
    BY <1>7, <1>10, <1>11, <2>2, StillFollows
<1>12. CASE To(r, "average") /\ (ratings' # ratings \/ Kin(u, e, c))
  <2>1. runs'[r].pc = "average"
    BY <1>2, <1>12, ToStep DEF Lands, Place, Talking
  <2>2. Giving(r, e)' <=> Kin(u, e, c)
    <3>1. Ask(r)' = Ask(r) /\ (Kin(u, e, c)' <=> Kin(u, e, c))
      BY <1>4, TurnAsks
    <3>2. Kin(Ask(r).user, e, runs[r].c)' <=> Kin(u, e, c)'
      BY <1>9, <3>1 DEF Kin, Belongs
    <3>3. QED
      BY <1>2, <2>1, <3>1, <3>2 DEF Giving
  <2>3. CASE Kin(u, e, c)
    <3>1. runs[r].fav = ratings[<<u, c>>] /\ ~To(r, "failed")
      <4>1. ~To(r, "failed")
        BY <1>2, <2>1, ToStep DEF Lands, Place, Talking
      <4>2. QED
        BY <1>3, <2>3, <4>1
    <3>2. ratings' = [ratings EXCEPT ![<<u, c>>] = score]
      BY <1>6, <3>1
    <3>3. ratings'[<<u, c>>] = score
      BY <1>3, <1>5, <3>2 DEF Scored
    <3>4. ASSUME Sole(u, e)'
          PROVE  Says(u, e, score)'
      <4>1. CASE c \in Slots
        <5>1. Belongs(c, u, e)'
          BY <1>4, <1>5, <2>3, <4>1 DEF Kin
        <5>2. QED
          BY <1>2, <3>3, <4>1, <5>1 DEF Says
      <4>2. CASE c \in Externals
        <5>1. c = e /\ on = e
          BY <1>3, <1>5, <2>3, <4>2 DEF Kin
        <5>2. \A d \in Slots : ~Belongs(d, u, e)'
          BY <1>3, <1>4, <3>4, <4>2, <5>1, SoleStep
        <5>3. QED
          BY <3>3, <5>1, <5>2 DEF Says
      <4>3. QED
        BY <1>3, <4>1, <4>2 DEF Things
    <3>5. score = (IF Giving(r, e)' THEN Ask(r).score ELSE given'[<<u, e>>])
      BY <1>1, <2>2, <2>3
    <3>6. QED
      BY <3>4, <3>5, OwnFollows
  <2>4. CASE ~Kin(u, e, c)
    <3>1. e # c /\ \A d \in Slots : Belongs(d, u, e) => d # c
      BY <2>4 DEF Kin
    <3>2. ~Giving(r, e)' /\ ratings'[<<u, e>>] = ratings[<<u, e>>]
      BY <1>5, <1>8, <2>2, <2>4, <3>1
    <3>3. \A d \in Slots : Belongs(d, u, e) => ratings'[<<u, d>>] = ratings[<<u, d>>]
      BY <1>5, <1>8, <3>1
    <3>4. \A d \in Slots : cocktails[d] = Null => ratings'[<<u, d>>] = Null
      <4>1. c \in Slots /\ cocktails[c] = Null => ratings' = ratings
        BY <1>6, <1>10
      <4>2. QED
        BY <1>5, <1>8, <1>10, <4>1
    <3>5. QED
      BY <1>7, <3>2, <3>3, <3>4, StillFollows
  <2>5. QED
    BY <2>3, <2>4
<1>13. CASE To(r, "average") /\ ratings' = ratings /\ ~Kin(u, e, c)
  <2>1. runs'[r].pc = "average"
    BY <1>2, <1>13, ToStep DEF Lands, Place, Talking
  <2>2. Ask(r)' = Ask(r) /\ ~Kin(u, e, c)'
    BY <1>4, <1>13, TurnAsks
  <2>3. ~Giving(r, e)'
    BY <1>9, <2>2 DEF Giving, Kin, Belongs
  <2>4. \A t : ratings'[t] = ratings[t]
    BY <1>13
  <2>5. \A d \in Slots : cocktails[d] = Null => ratings'[<<u, d>>] = Null
    BY <1>10, <2>4
  <2>6. (Giving(r, e)' <=> Giving(r, e)) /\ given'[<<u, e>>] = given[<<u, e>>]
    BY <1>7, <2>3
  <2>7. QED
    BY <2>4, <2>5, <2>6, StillFollows
<1>14. (To(r, "failed") /\ ratings' = ratings) \/ To(r, "average")
  BY <1>6
<1>15. QED
  BY <1>11, <1>12, <1>13, <1>14

\* Once it is told of, the score is the one it has told of.
LEMMA RateSaveFollows ==
  ASSUME NEW r \in Requests, Turn(r), NEW u \in Users, u = Ask(r).user, ~Erased(u)', RateSave(r), NEW e \in Externals
  PROVE  Follows(u, e)'
<1>1. PICK c, on, q : /\ c = runs[r].c /\ on = Ask(r).on
                      /\ q = IF Ask(r).on \in Externals THEN Ask(r).on
                             ELSE IF runs[r].row.owner = Ask(r).user THEN runs[r].row.parent ELSE Null
  OBVIOUS
<1>2. Ask(r).kind = "rate" /\ runs[r].pc = "rate-save" /\ RunShape /\ Agree /\ UNCHANGED ratings
  BY DEF RateSave, At, Turn, Well
<1>3. /\ c \in Things /\ u \in users /\ ~Erased(u)
      /\ on \in Externals => Kin(u, on, c)
      /\ c \in Externals => c = on
  BY <1>1, <1>2, Aimed DEF Rating
<1>4. Externals \cap Slots = {} /\ Null \notin Externals /\ u # Null
  BY TypesAssumption DEF Slots
<1>5. Kin(u, e, c) <=> e = q
  <2>1. CASE on \in Externals
    BY <1>1, <1>3, <2>1, OneKin
  <2>2. CASE on \notin Externals
    <3>1. c \in Slots /\ Holds(r, c) /\ Agrees(r, c)
      BY <1>1, <1>2, <1>3, <2>2 DEF Things, Holds, Keeping, Rating, Agree
    <3>2. Kin(u, e, c) <=> Belongs(c, u, e)
      BY <1>4, <3>1 DEF Kin
    <3>3. CASE runs[r].row.owner = u
      <4>1. Belongs(c, u, runs[r].row.parent) /\ q = runs[r].row.parent
        BY <1>1, <1>3, <1>4, <2>2, <3>1, <3>3 DEF Agrees
      <4>2. QED
        BY <3>2, <4>1 DEF Belongs
    <3>4. CASE runs[r].row.owner # u
      <4>1. ~Belongs(c, u, e)
        BY <1>3, <1>4, <3>1, <3>4 DEF Agrees, Belongs
      <4>2. QED
        BY <1>1, <1>4, <2>2, <3>2, <3>4, <4>1
    <3>5. QED
      BY <3>3, <3>4
  <2>3. QED
    BY <2>1, <2>2
<1>6. Giving(r, e) <=> e = q
  BY <1>1, <1>2, <1>5 DEF Giving
<1>7. given'[<<u, e>>] = IF e = q THEN Ask(r).score ELSE given[<<u, e>>]
  <2>1. given' = [k \in DOMAIN given |-> IF k = <<u, q>> THEN Ask(r).score ELSE given[k]]
    BY <1>1 DEF RateSave
  <2>2. <<u, e>> \in DOMAIN given
    BY DEF Turn, Rates
  <2>3. QED
    BY <2>1, <2>2
<1>8. ~Giving(r, e)'
  <2>1. runs'[r].pc = "done"
    BY <1>2, ToStep DEF RateSave, Lands, Place, Talking
  <2>2. QED
    BY <2>1 DEF Giving
<1>9. PICK v : v = IF Giving(r, e) THEN Ask(r).score ELSE given[<<u, e>>]
  OBVIOUS
<1>10. \A d \in Slots : cocktails[d] = Null => ratings[<<u, d>>] = Null
  BY <1>3 DEF Turn, Rates, Keyed
<1>11. ASSUME Sole(u, e)'
       PROVE  Says(u, e, v)'
  <2>1. Says(u, e, v)
    BY <1>9, <1>11, OwnSays
  <2>2. QED
    BY <1>2, <1>10, <2>1, SaysStays
<1>12. v = (IF Giving(r, e)' THEN Ask(r).score ELSE given'[<<u, e>>])
  BY <1>6, <1>7, <1>8, <1>9
<1>13. QED
  BY <1>11, <1>12, OwnFollows

LEMMA RateSettles ==
  ASSUME NEW r \in Requests, Turn(r), Ask(r).kind = "rate", NEW u \in Users, u = Ask(r).user, ~Erased(u)'
  PROVE  (\A e \in Externals : Follows(u, e)') /\ Aims(r)' /\ Carries(r)'
<1>1. RateTarget(r) \/ RateFind(r) \/ RateStore(r) \/ RateAverage(r) \/ RateSave(r)
  BY DEF Turn, RatingStep
<1>2. Carries(r)'
  BY TurnAsks DEF Carries
<1>3. Aims(r)'
  BY <1>1, TargetSettles, RatingAims
<1>4. ~MoveStore(r) /\ ~MoveRemove(r)
  BY DEF MoveStore, MoveRemove, At
<1>5. CASE RateTarget(r) \/ RateFind(r) \/ RateAverage(r)
  <2>1. given' = given /\ ~RateStore(r)
    <3>1. runs[r].pc # "rate-store"
      BY <1>5 DEF RateTarget, RateFind, RateAverage, Starts, At
    <3>2. QED
      BY <1>5, <3>1 DEF RateTarget, RateFind, RateAverage, RateStore, At, Keep
  <2>2. \A e : Giving(r, e)' <=> Giving(r, e)
    <3>1. CASE RateTarget(r)
      BY <3>1, TargetSettles
    <3>2. CASE RateFind(r)
      <4>1. runs[r].pc = "rate-find" /\ RunShape /\ \E score : Go(r, [runs[r] EXCEPT !.fav = score, !.pc = "rate-store"])
        BY <3>2 DEF RateFind, At, Turn, Well
      <4>2. runs'[r].pc = "rate-store"
        BY <4>1, FavStep DEF Lands, Place, Talking
      <4>3. QED
        BY <4>1, <4>2 DEF Giving
    <3>3. CASE RateAverage(r)
      <4>1. runs[r].pc = "average" /\ RunShape
        BY <3>3 DEF RateAverage, At, Turn, Well
      <4>2. PICK row : row = IF runs[r].c \in Slots THEN [runs[r].row EXCEPT !.avg = Average(runs[r].c)] ELSE Null
        OBVIOUS
      <4>3. Go(r, [runs[r] EXCEPT !.row = row, !.pc = "rate-save"])
        BY <3>3, <4>1, <4>2 DEF RateAverage, RunShape, Fits
      <4>4. runs'[r].pc = "rate-save" /\ runs'[r].c = runs[r].c
        BY <4>1, <4>3, RowStep DEF Lands, Place, Talking
      <4>5. \A e : Kin(Ask(r).user, e, runs[r].c)' <=> Kin(u, e, runs[r].c)
        BY <4>4, RateBelongs, TurnAsks DEF Kin, Belongs
      <4>6. QED
        BY <4>1, <4>4, <4>5, TurnAsks DEF Giving
    <3>4. QED
      BY <1>5, <3>1, <3>2, <3>3
  <2>3. \A e \in Externals : Follows(u, e)'
    BY <1>4, <2>1, <2>2, RatingsStay, StillFollows
  <2>4. QED
    BY <1>2, <1>3, <2>3
<1>6. CASE RateStore(r) \/ RateSave(r)
  BY <1>2, <1>3, <1>6, RateStoreFollows, RateSaveFollows
<1>7. QED
  BY <1>1, <1>5, <1>6

LEMMA KeyedStep ==
  ASSUME NEW r \in Requests, Turn(r)
  PROVE  Keyed'
<1>1. SUFFICES ASSUME NEW u \in Users, ~Erased(u)', NEW c \in Slots, ratings'[<<u, c>>] # Null, cocktails'[c] = Null
               PROVE  FALSE
  BY DEF Keyed
<1>2. Counts(r, u, c) /\ GoesAlong(c) /\ c \in Things
  BY DEF Turn, RatingStep, Things
<1>3. cocktails[c] = Null
  BY <1>1, <1>2 DEF GoesAlong
<1>4. ratings[<<u, c>>] = Null /\ Scored
  BY <1>1, <1>3, TurnAsks DEF Turn, Rates, Keyed
<1>5. CASE u = Ask(r).user /\ c = runs[r].c /\ (RateStore(r) \/ MoveStore(r))
  <2>1. ratings' = ratings
    BY <1>3, <1>4, <1>5 DEF RateStore, MoveStore
  <2>2. QED
    BY <1>1, <1>4, <2>1
<1>6. CASE u = Ask(r).user /\ c = Ask(r).on /\ MoveRemove(r)
  BY <1>1, <1>2, <1>4, <1>6 DEF MoveRemove, Scored
<1>7. QED
  BY <1>1, <1>2, <1>4, <1>5, <1>6 DEF Counts

LEMMA AfreshStep ==
  ASSUME NEW r \in Requests, Turn(r)
  PROVE  Afresh'
<1>1. SUFFICES ASSUME NEW s \in Requests, NEW c \in Slots, Saver(s), Holds(s, c)'
               PROVE  ~runs'[s].row.deleted /\ (Hidden(c)' => Removed(c)')
  BY TurnAsks DEF Afresh, Saver
<1>2. Afresh /\ CopiesFit(r) /\ (Saver(r) => Upheld(r, c))
  BY DEF Turn, Rates, FavoriteStep, RatingStep
<1>3. ASSUME Holds(s, c), runs'[s].row.deleted = runs[s].row.deleted
      PROVE  ~runs'[s].row.deleted /\ (Hidden(c)' => Removed(c)')
  <2>1. ~runs[s].row.deleted /\ (Hidden(c) => Removed(c))
    BY <1>1, <1>2, <1>3 DEF Afresh
  <2>2. Hidden(c)' => Removed(c)'
    BY <2>1, HiddenStep, RemovedStays
  <2>3. QED
    BY <1>3, <2>1, <2>2
<1>4. CASE s # r
  <2>1. runs'[s] = runs[s]
    BY <1>4, TurnAsks
  <2>2. Holds(s, c)
    BY <1>1, <2>1 DEF Holds
  <2>3. QED
    BY <1>3, <2>1, <2>2
<1>5. CASE s = r /\ ~(Holds(r, c) /\ runs'[r].row.deleted = runs[r].row.deleted)
  <2>1. ~runs'[r].row.deleted
    BY <1>1, <1>2, <1>5 DEF Upheld
  <2>2. CASE Holds(r, c)
    <3>1. ~runs[r].row.deleted /\ (Hidden(c) => Removed(c))
      BY <1>1, <1>2, <1>5, <2>2 DEF Afresh
    <3>2. Hidden(c)' => Removed(c)'
      BY <3>1, HiddenStep, RemovedStays
    <3>3. QED
      BY <1>5, <2>1, <3>2
  <2>3. CASE ~Holds(r, c)
    <3>1. runs'[r].row = cocktails[c]
      BY <1>1, <1>2, <1>5, <2>3 DEF CopiesFit
    <3>2. Hidden(c)' => Removed(c)'
      BY <2>1, <3>1, HiddenStep DEF Hidden
    <3>3. QED
      BY <1>5, <2>1, <3>2
  <2>4. QED
    BY <2>2, <2>3
<1>6. QED
  BY <1>3, <1>4, <1>5

LEMMA TurnRates ==
  ASSUME NEW r \in Requests, Turn(r)
  PROVE  Rates'
<1>1. Keyed' /\ Afresh'
  BY KeyedStep, AfreshStep
<1>2. DOMAIN given' = Users \X Externals
  <2>1. given' = given \/ RateSave(r)
    BY DEF Turn, RatingStep
  <2>2. QED
    BY <2>1 DEF Turn, Rates, RateSave
<1>3. \A s \in Requests : Ask(s).user \in Users
  BY Asked DEF Turn
<1>4. ASSUME NEW u \in Users, u = Ask(r).user, ~Erased(u)'
      PROVE  (\A e \in Externals : Follows(u, e)') /\ Aims(r)' /\ Carries(r)'
  BY <1>4, PlainSettles, PrepareSettles, RateSettles
<1>5. ASSUME NEW u \in Users, ~Erased(u)', NEW e \in Externals
      PROVE  Follows(u, e)'
  BY <1>4, <1>5, OthersFollow
<1>6. ASSUME NEW s \in Requests, ~Erased(Ask(s).user)'
      PROVE  Aims(s)' /\ Carries(s)'
  <2>1. PICK u \in Users : u = Ask(s).user
    BY <1>3
  <2>2. ~Erased(u)'
    BY <1>6, <2>1, TurnAsks DEF Erased
  <2>3. CASE u # Ask(r).user
    BY <2>1, <2>2, <2>3, OthersAim
  <2>4. CASE s = r
    BY <1>4, <2>1, <2>2, <2>4
  <2>5. CASE s # r /\ u = Ask(r).user
    <3>1. ~Running(s)' /\ Ask(s)' = Ask(s)
      BY <2>1, <2>5, OnlyOne, TurnAsks
    <3>2. Ask(s).kind \in {"rate", "prepare"} => runs'[s].pc \in {"new", "done", "refused", "failed"}
      BY <3>1 DEF Running, Ends
    <3>3. QED
      BY <3>1, <3>2 DEF Aims, Carries, Carrying, Rating
  <2>6. QED
    BY <2>3, <2>4, <2>5
<1>7. QED
  BY <1>1, <1>2, <1>5, <1>6, TurnAsks DEF Rates

\* A step that changes no rating, and of the cocktails their pictures and averages
\* at most.
LEMMA UntouchedRates ==
  ASSUME RatInv, UNCHANGED <<scene, runs, ratings, given>>,
         \A c \in Slots : /\ cocktails'[c] = Null <=> cocktails[c] = Null
                          /\ cocktails[c] # Null => /\ cocktails'[c].owner = cocktails[c].owner
                                                    /\ cocktails'[c].parent = cocktails[c].parent
                                                    /\ cocktails'[c].deleted = cocktails[c].deleted
  PROVE  RatInv'
<1>1. Requests' = Requests /\ \A s : Ask(s)' = Ask(s)
  BY SameAsks
<1>2. /\ Resolved' <=> Resolved
      /\ \A u : Erased(u)' <=> Erased(u)
      /\ \A c : Removed(c)' <=> Removed(c)
      /\ \A s, c : Holds(s, c)' <=> Holds(s, c)
      /\ \A s : Saver(s)' <=> Saver(s)
  BY <1>1 DEF Resolved, Erased, Removed, Holds, Saver
<1>3. \A c \in Slots : \A u, e : Belongs(c, u, e)' <=> Belongs(c, u, e)
  BY DEF Belongs
<1>4. \A u, e, c : Kin(u, e, c)' <=> Kin(u, e, c)
  BY <1>3 DEF Kin
<1>5. \A u, e : Sole(u, e)' <=> Sole(u, e)
  <2>1. ASSUME NEW u, NEW e
        PROVE  Lost(u, e)' <=> Lost(u, e)
    BY <1>2 DEF Lost
  <2>2. QED
    BY <1>3, <2>1 DEF Sole
<1>6. \A u, e, v : Says(u, e, v)' <=> Says(u, e, v)
  BY <1>3 DEF Says
<1>7. \A c \in Slots : Hidden(c)' <=> Hidden(c)
  <2>1. SUFFICES ASSUME NEW c \in Slots PROVE Hidden(c)' <=> Hidden(c)
    OBVIOUS
  <2>2. cocktails[c] # Null => (Erased(cocktails[c].owner)' <=> Erased(cocktails[c].owner))
    BY <1>1 DEF Erased
  <2>3. QED
    BY <1>1, <2>2 DEF Hidden, Erased
<1>8. ASSUME Rates
      PROVE  Rates'
  <2>1. Keyed'
    BY <1>2, <1>8 DEF Rates, Keyed
  <2>2. Afresh'
    BY <1>1, <1>2, <1>7, <1>8 DEF Rates, Afresh
  <2>3. ASSUME NEW s \in Requests
        PROVE  (Aims(s)' <=> Aims(s)) /\ (Carries(s)' <=> Carries(s)) /\ (Erased(Ask(s).user)' <=> Erased(Ask(s).user))
    <3>1. PICK u, on, c : u = Ask(s).user /\ on = Ask(s).on /\ c = runs[s].c
      OBVIOUS
    <3>2. Carries(s)' <=> Carries(s)
      BY <1>1 DEF Carries, Belongs
    <3>3. Aims(s)' <=> Aims(s)
      <4>1. Sole(Ask(s).user, Ask(s).on)' <=> Sole(Ask(s).user, Ask(s).on)
        <5>1. Sole(Ask(s).user, Ask(s).on)' <=> Sole(u, on)'
          BY <1>1, <3>1 DEF Sole, Lost, Belongs, Removed
        <5>2. QED
          BY <1>5, <3>1, <5>1
      <4>2. QED
        BY <1>1, <4>1 DEF Aims, Belongs, Kin
    <3>4. Erased(Ask(s).user)' <=> Erased(Ask(s).user)
      BY <1>1 DEF Erased
    <3>5. QED
      BY <3>2, <3>3, <3>4
  <2>4. ASSUME NEW u \in Users, NEW e \in Externals
        PROVE  Follows(u, e)' <=> Follows(u, e)
    <3>1. \A s \in Requests : Giving(s, e)' <=> Giving(s, e)
      <4>1. SUFFICES ASSUME NEW s \in Requests PROVE Giving(s, e)' <=> Giving(s, e)
        OBVIOUS
      <4>2. Kin(Ask(s).user, e, runs[s].c)' <=> Kin(Ask(s).user, e, runs[s].c)
        BY <1>1, <1>3 DEF Kin, Belongs
      <4>3. QED
        BY <1>1, <4>2 DEF Giving
    <3>2. \A s \in Requests : Says(u, e, Ask(s).score)' <=> Says(u, e, Ask(s).score)
      BY <1>1, <1>3 DEF Says, Belongs
    <3>3. Says(u, e, given[<<u, e>>])' <=> Says(u, e, given[<<u, e>>])
      BY <1>1, <1>3 DEF Says, Belongs
    <3>4. QED
      BY <1>1, <1>5, <3>1, <3>2, <3>3 DEF Follows
  <2>5. QED
    BY <1>1, <1>2, <1>8, <2>1, <2>2, <2>3, <2>4 DEF Rates
<1>9. QED
  BY <1>2, <1>8 DEF RatInv

\* Where there is one import or fork, what is shown is what is answered with.
LEMMA SoleSays ==
  ASSUME NEW u, NEW e, Sole(u, e), NEW v, Says(u, e, v)
  PROVE  UserRating(u, e) = v
<1>1. \A c : c \in OwnForks(u, e) <=> c \in Slots /\ Belongs(c, u, e)
  BY DEF OwnForks, Forks, Live, Belongs, Sole, Lost
<1>2. CASE \E c \in Slots : Belongs(c, u, e) /\ ratings[<<u, c>>] # Null /\ ratings[<<u, c>>] = v
  <2>1. PICK c \in OwnForks(u, e) : ratings[<<u, c>>] # Null /\ ratings[<<u, c>>] = v
    BY <1>1, <1>2
  <2>2. \A d \in OwnForks(u, e) : d = c
    BY <1>1, <2>1 DEF Sole
  <2>3. PICK d : d = CHOOSE x \in OwnForks(u, e) : ratings[<<u, x>>] # Null
    OBVIOUS
  <2>4. d \in OwnForks(u, e)
    BY <2>1, <2>3
  <2>5. UserRating(u, e) = ratings[<<u, d>>]
    BY <2>1, <2>3 DEF UserRating
  <2>6. QED
    BY <2>1, <2>2, <2>4, <2>5
<1>3. CASE (\A c \in Slots : Belongs(c, u, e) => ratings[<<u, c>>] = Null) /\ ratings[<<u, e>>] = v
  BY <1>1, <1>3 DEF UserRating
<1>4. QED
  BY <1>2, <1>3 DEF Says

LEMMA SoleAnswers ==
  ASSUME NEW u, NEW e, Sole(u, e)
  PROVE  Says(u, e, UserRating(u, e))
<1>1. \A c : c \in OwnForks(u, e) <=> c \in Slots /\ Belongs(c, u, e)
  BY DEF OwnForks, Forks, Live, Belongs, Sole, Lost
<1>2. CASE \E c \in OwnForks(u, e) : ratings[<<u, c>>] # Null
  <2>1. PICK c : c = CHOOSE x \in OwnForks(u, e) : ratings[<<u, x>>] # Null
    OBVIOUS
  <2>2. c \in OwnForks(u, e) /\ ratings[<<u, c>>] # Null
    BY <1>2, <2>1
  <2>3. UserRating(u, e) = ratings[<<u, c>>]
    BY <1>2, <2>1 DEF UserRating
  <2>4. QED
    BY <1>1, <2>2, <2>3 DEF Says
<1>3. CASE ~\E c \in OwnForks(u, e) : ratings[<<u, c>>] # Null
  BY <1>1, <1>3 DEF Says, UserRating
<1>4. QED
  BY <1>2, <1>3

LEMMA RatInit == BarInit => RatInv
<1>1. SUFFICES ASSUME BarInit PROVE Rates
  BY DEF RatInv
<1>2. /\ scene \in Scenes /\ runs = [r \in Requests |-> Idle]
      /\ cocktails = [c \in Slots |-> IF c \in DOMAIN scene.cocktails THEN scene.cocktails[c] ELSE Null]
      /\ ratings = [k \in Users \X Things |-> IF k \in DOMAIN scene.ratings THEN scene.ratings[k] ELSE Null]
      /\ given = [k \in Users \X Externals |-> UserRating(k[1], k[2])]
  BY <1>1 DEF BarInit, Init, Things
<1>3. \A r \in Requests : runs[r].pc = "new"
  BY <1>2 DEF Idle
<1>4. Keyed
  <2>1. SUFFICES ASSUME NEW u \in Users, NEW c \in Slots, ratings[<<u, c>>] # Null
                 PROVE  cocktails[c] # Null
    BY DEF Keyed
  <2>2. <<u, c>> \in DOMAIN scene.ratings
    BY <1>2, <2>1 DEF Things
  <2>3. c \in DOMAIN scene.cocktails
    BY <1>2, <2>2, ScenesAssumption
  <2>4. cocktails[c] = scene.cocktails[c] /\ scene.cocktails[c] \in Cocktail
    BY <1>2, <2>3, ScenesAssumption
  <2>5. QED
    BY <2>4, TypesAssumption
<1>5. Afresh
  BY <1>3 DEF Afresh, Holds, Keeping, Rating
<1>6. \A r \in Requests : Aims(r) /\ Carries(r) /\ \A e : ~Giving(r, e)
  BY <1>3 DEF Aims, Carries, Giving, Rating, Carrying
<1>7. ASSUME NEW u \in Users, NEW e \in Externals
      PROVE  Follows(u, e)
  <2>1. given[<<u, e>>] = UserRating(u, e)
    BY <1>2
  <2>2. QED
    BY <1>6, <2>1, SoleAnswers DEF Follows
<1>8. QED
  BY <1>2, <1>4, <1>5, <1>6, <1>7 DEF Rates

LEMMA IngestRates ==
  ASSUME scene \in Scenes, FavInv, RatInv, NEW r \in Requests, IngestImage(r)
  PROVE  RatInv'
<1>1. UNCHANGED <<scene, runs, ratings, given>> /\ r \in Nat
  BY ScenesAssumption DEF IngestImage, Requests
<1>2. PICK d : cocktails' = IF cocktails[d] = Null THEN cocktails ELSE [cocktails EXCEPT ![d].image = r]
  BY DEF IngestImage
<1>3. ASSUME Tables, NEW c \in Slots
      PROVE  /\ cocktails'[c] = Null <=> cocktails[c] = Null
             /\ cocktails[c] # Null => /\ cocktails'[c].owner = cocktails[c].owner
                                       /\ cocktails'[c].parent = cocktails[c].parent
                                       /\ cocktails'[c].deleted = cocktails[c].deleted
  <2>1. CASE cocktails' = cocktails \/ c # d
    BY <1>2, <1>3, <2>1 DEF Tables
  <2>2. CASE c = d /\ cocktails[d] # Null
    <3>1. PICK row : row = [cocktails[c] EXCEPT !.image = r]
      OBVIOUS
    <3>2. cocktails[c] \in Cocktail
      BY <1>3, <2>2 DEF Tables
    <3>3. /\ row \in Cocktail /\ row.owner = cocktails[c].owner /\ row.parent = cocktails[c].parent
          /\ row.deleted = cocktails[c].deleted /\ row # Null
      BY <1>1, <3>1, <3>2, TypesAssumption DEF Cocktail
    <3>4. cocktails'[c] = row
      BY <1>2, <1>3, <2>2, <3>1 DEF Tables
    <3>5. QED
      BY <2>2, <3>3, <3>4
  <2>3. QED
    BY <1>2, <2>1, <2>2
<1>4. CASE Resolved
  BY <1>1, <1>4, SameAsks DEF RatInv, Resolved
<1>5. QED
  BY <1>1, <1>3, <1>4, UntouchedRates DEF FavInv

\* A request's step, with all that is known of it.
LEMMA StepRates ==
  ASSUME QuotaInv, FavInv, ErasureInv, RatInv, NEW r \in Requests, LibraryStep(r),
         Well => FavoriteStep(r), Well => RatingStep(r)
  PROVE  RatInv'
<1>1. UNCHANGED scene /\ (Resolved' <=> Resolved)
  BY SameAsks DEF LibraryStep, Resolved
<1>2. CASE Resolved \/ ~scene.patient
  BY <1>1, <1>2 DEF RatInv
<1>3. CASE ~Resolved /\ scene.patient
  <2>1. Well
    BY <1>3 DEF QuotaInv, FavInv, Well, ErasureInv, LibraryBooks, Typed
  <2>2. Turn(r)
    BY <1>3, <2>1 DEF Turn, RatInv, ErasureInv
  <2>3. QED
    BY <2>2, TurnRates DEF RatInv
<1>4. QED
  BY <1>2, <1>3

LEMMA RatStep == QuotaInv /\ PicInv /\ FavInv /\ ErasureInv /\ RatInv /\ [BarNext]_barVars => RatInv'
<1>1. SUFFICES ASSUME QuotaInv, PicInv, FavInv, ErasureInv, RatInv, [BarNext]_barVars PROVE RatInv'
  OBVIOUS
<1>2. OrderShape /\ Typed /\ FavsBelong /\ ScoresBelong /\ scene \in Scenes
  BY <1>1 DEF QuotaInv, ErasureInv, LibraryBooks
<1>3. ASSUME NEW r \in Requests, LibraryStep(r), Well => FavoriteStep(r), Well => RatingStep(r)
      PROVE  RatInv'
  BY <1>1, <1>3, StepRates
<1>4. ASSUME UNCHANGED <<scene, tables, runs, given>>
      PROVE  RatInv'
  BY <1>1, <1>4, UntouchedRates DEF tables
<1>5. CASE \/ UNCHANGED barVars \/ Midnight \/ CleanHistory \/ (Finished /\ UNCHANGED ai)
           \/ (Sweeping /\ UNCHANGED <<scene, tables, runs, given, putBack, ai>>)
  BY <1>4, <1>5 DEF barVars, vars, Midnight, CleanHistory, Finished
<1>6. ASSUME NEW r \in Requests, Bartending(r)
      PROVE  RatInv'
  <2>1. Well => FavoriteStep(r)
    BY <1>1, <1>6, TalkingStep, SaveCocktailStep DEF Bartending
  <2>2. LibraryStep(r)
    BY <1>1, <1>2, <1>6, SaveCocktailHandles, TalkingHandles DEF Bartending
  <2>3. RatingStep(r)
    BY <1>1, <1>6, <2>2, AsideRates DEF Bartending, Aside
  <2>4. QED
    BY <1>3, <2>1, <2>2, <2>3
<1>7. ASSUME NEW r \in Requests, EraseHistory(r)
      PROVE  RatInv'
  <2>1. Well => FavoriteStep(r)
    BY <1>7, EndingSteps DEF EraseHistory
  <2>2. LibraryStep(r)
    BY <1>1, <1>2, <1>7, EndingHandles DEF EraseHistory
  <2>3. Well => RatingStep(r)
    BY <1>7, <2>2, ErasesRate DEF EraseHistory
  <2>4. QED
    BY <1>3, <2>1, <2>2, <2>3
<1>8. ASSUME NEW r \in Requests, Recipes(r) \/ Upload(r) \/ UploadFails(r)
      PROVE  RatInv'
  <2>1. LibraryStep(r)
    BY <1>1, <1>2, <1>8, RecipeStartsHandle, InsertHandles, RecipeSavesHandle, ResolveHandles DEF Recipes
  <2>2. Well => RatingStep(r)
    BY <1>8, <2>1, RecipesRate
  <2>3. ASSUME Well
        PROVE  FavoriteStep(r)
    <3>1. ~(ResolveRead(r) \/ Resolve(r))
      BY <2>3, Asked DEF ResolveRead, Resolve, Starts, At
    <3>2. QED
      BY <1>8, <2>3, <3>1, RecipesStart, RecipesSave, InsertStep DEF Recipes
  <2>4. QED
    BY <1>3, <2>1, <2>2, <2>3
<1>9. ASSUME NEW r \in Requests, IngestImage(r) \/ (Storing(r) /\ UNCHANGED <<scene, tables, runs, given, putBack>>)
      PROVE  RatInv'
  BY <1>1, <1>2, <1>4, <1>9, IngestRates
<1>10. ASSUME NEW r \in Requests, Favorites(r)
       PROVE  RatInv'
  <2>1. LibraryStep(r)
    BY <1>2, <1>10, FavoritesHandle, UnfavoritesHandle, ListReadHandles, ListSaveHandles, MigrateReadHandles,
       MigrateSaveHandles DEF Favorites
  <2>2. Well => FavoriteStep(r)
    BY <1>10, FavoriteSteps, UnfavoriteSteps, ListReadStep, ListSaveStep, MigrateReadStep, MigrateSaveStep DEF Favorites
  <2>3. Well => RatingStep(r)
    BY <1>1, <1>10, <2>1, AsideRates, MigrationsRate DEF Favorites, Aside
  <2>4. QED
    BY <1>3, <2>1, <2>2, <2>3
<1>11. ASSUME NEW r \in Requests, Ratings(r)
       PROVE  RatInv'
  <2>1. LibraryStep(r)
    BY <1>2, <1>11, MovesHandle, RateTargetHandles, RatesHandle, RateSaveHandles DEF Ratings
  <2>2. Well => FavoriteStep(r)
    BY <1>11, MoveSteps, RateTargetStep, RatesStep, RateSaveStep DEF Ratings
  <2>3. Well => RatingStep(r)
    BY <1>11, <2>1, MovesRate, RatesRate DEF Ratings, MovesRating
  <2>4. QED
    BY <1>3, <2>1, <2>2, <2>3
<1>12. ASSUME NEW r \in Requests, EraseRead(r) \/ EraseOne(r)
       PROVE  RatInv'
  <2>1. LibraryStep(r)
    BY <1>2, <1>12, EraseReadHandles, EraseOneHandles
  <2>2. Well => FavoriteStep(r)
    BY <1>12, EraseReadStep, EraseOneStep
  <2>3. Well => RatingStep(r)
    BY <1>12, <2>1, ErasesRate
  <2>4. QED
    BY <1>3, <2>1, <2>2, <2>3
<1>13. QED
  BY <1>1, <1>5, <1>6, <1>7, <1>8, <1>9, <1>10, <1>11, <1>12 DEF BarNext, Pictures

\* A user none of whose requests is under way, and whose account there is, is told
\* what was given last.
LEMMA Followed == ErasureInv /\ RatInv => RatingFollows
<1>1. SUFFICES ASSUME ErasureInv, RatInv, ~Resolved, NEW u \in Users, Settled(u), NEW e \in Externals,
                      Cardinality(OwnForks(u, e)) <= 1, ~Lost(u, e)
               PROVE  UserRating(u, e) = given[<<u, e>>]
  BY DEF RatingFollows
<1>2. /\ scene.patient /\ u \in users /\ Rates
      /\ \A r \in Requests : Ask(r).user = u => runs[r].pc \in {"new", "done", "refused", "failed"}
  BY <1>1 DEF Settled, RatInv, Running, Ends
<1>3. ~Erased(u)
  <2>1. \A r \in Requests : Stages(r)
    BY <1>1 DEF ErasureInv
  <2>2. QED
    BY <1>2, <2>1 DEF Stages, Erased
<1>4. Sole(u, e)
  <2>1. \A c \in Slots : Belongs(c, u, e) => c \in OwnForks(u, e)
    BY <1>1 DEF OwnForks, Forks, Live, Belongs, Lost
  <2>2. ASSUME NEW c \in Slots, NEW d \in Slots, Belongs(c, u, e), Belongs(d, u, e)
        PROVE  c = d
    <3>1. IsFiniteSet(Slots) /\ OwnForks(u, e) \subseteq Slots
      BY TypesAssumption, FS_Interval DEF Slots, OwnForks, Forks
    <3>2. {c, d} \subseteq OwnForks(u, e) /\ IsFiniteSet(OwnForks(u, e))
      BY <2>1, <2>2, <3>1, FS_Subset
    <3>3. Cardinality({c, d}) <= 1
      <4>1. Cardinality({c, d}) <= Cardinality(OwnForks(u, e)) /\ Cardinality(OwnForks(u, e)) \in Nat /\ IsFiniteSet({c, d})
        BY <3>2, FS_Subset, FS_CardinalityType
      <4>2. Cardinality({c, d}) \in Nat
        BY <4>1, FS_CardinalityType
      <4>3. QED
        BY <1>1, <4>1, <4>2
    <3>4. c # d => Cardinality({c, d}) = 2
      <4>1. IsFiniteSet({c}) /\ Cardinality({c}) = 1
        BY FS_Singleton
      <4>2. {c, d} = {c} \cup {d}
        OBVIOUS
      <4>3. QED
        BY <4>1, <4>2, FS_AddElement
    <3>5. QED
      BY <3>3, <3>4
  <2>3. QED
    BY <1>1, <2>2 DEF Sole
<1>5. \A r \in Requests : Ask(r).user = u => ~Giving(r, e)
  BY <1>2 DEF Giving
<1>6. Says(u, e, given[<<u, e>>])
  BY <1>2, <1>3, <1>4, <1>5 DEF Rates, Follows
<1>7. QED
  BY <1>4, <1>6, SoleSays

\* The rating that a user who does one thing at a time gave a remote cocktail last
\* is the one shown for it, also once it has been imported, forked or rated as the
\* import, however many others rate, edit and remove meanwhile.
THEOREM RatingFollowsHolds == BarSpec => []RatingFollows
<1>1. ErasureInv /\ RatInv => RatingFollows
  BY Followed
<1>2. QuotaInv => OrderShape
  BY DEF QuotaInv
<1>3. QED
  BY <1>1, <1>2, QuotaInit, QuotaStep, PicInit, PicStep, FavoritesInit, FavoritesStep, ErasureInit, ErasureStep,
     RatInit, RatStep, PTL DEF BarSpec
===============================================================================
