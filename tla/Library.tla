------------------------------- MODULE Library -------------------------------
(***************************************************************************)
(* The recipe library: cocktails and their forks (cocktails.service.ts),    *)
(* favorites that point to a cocktail or to a remote one                    *)
(* (favorites.service.ts), ratings (rating.service.ts), moderation          *)
(* (admin.service.ts), the erasure of an account                            *)
(* (gdpr-data-retention.service.ts), and the pictures these leave or take.  *)
(* Each handler goes statement by statement, so that two of them may        *)
(* overlap.                                                                *)
(*                                                                         *)
(* What a handler has read it saves with repository.save(), which writes    *)
(* every column that differs from the table, stale ones too, and inserts    *)
(* the row again if it has gone.                                            *)
(***************************************************************************)
EXTENDS Images, FiniteSetsExt

CONSTANTS Users, Externals,
          MaxCocktails,   \* bound: cocktails made in one behaviour
          Scenes          \* what a behaviour starts from

Slots == 1..MaxCocktails
FavIds == 1..4          \* bound: favorites made in one behaviour
Things == Slots \cup Externals

\* The rows of the tables.  A recipe says what an import or the bartender makes of
\* it or what a user writes; an average is the scores it is taken of.
Contents == {"original", "own"} \cup UNION {{s.asks[r].content : r \in DOMAIN s.asks} : s \in Scenes}
Cocktail == [owner : Users \cup {Null}, public : BOOLEAN, parent : Things \cup {Null}, content : Contents,
             deleted : BOOLEAN, avg : UNION {[set -> 1..5] : set \in SUBSET Users}, image : Nat \cup {Null}]
Favorite == [user : Users \cup {Null}, on : Things]

\* There is room for a number of cocktails; a number is no remote cocktail, and Null
\* is nothing else.
ASSUME TypesAssumption == /\ MaxCocktails \in Nat
                          /\ Externals \cap (Nat \cup {Null}) = {} /\ Null \notin Users
                          /\ Null \notin Cocktail \cup Favorite
\* Requests are numbered; a report is about a cocktail, a rating about one there is;
\* the pictures there are from before are one row's each, and no request's, and
\* what earlier erasures have left without an owner is public.
ASSUME ScenesAssumption == \A s \in Scenes :
  /\ DOMAIN s.asks \subseteq Nat /\ IsFiniteSet(DOMAIN s.asks)
  /\ \A r \in DOMAIN s.asks :
       /\ s.asks[r].user \in Users /\ s.asks[r].public \in BOOLEAN
       /\ s.asks[r].kind = "create" => s.asks[r].on \in Things \cup {Null}
       /\ s.asks[r].kind = "unfavorite" => s.asks[r].on \in Things
       /\ s.asks[r].kind = "rate" => s.asks[r].score \in 1..5
       /\ s.asks[r].kind = "resolve" => s.asks[r].on \in Slots
  /\ \A i \in DOMAIN s.favs : i \in FavIds /\ s.favs[i] \in Favorite
  /\ \A k \in DOMAIN s.ratings : s.ratings[k] \in 1..5 /\ (k[2] \in Slots => k[2] \in DOMAIN s.cocktails)
  /\ \A c \in DOMAIN s.cocktails :
       /\ s.cocktails[c] \in Cocktail
       /\ s.cocktails[c].image \notin DOMAIN s.asks
       /\ s.cocktails[c].owner = Null => s.cocktails[c].public
       /\ \A d \in DOMAIN s.cocktails :
            s.cocktails[c].image = s.cocktails[d].image => c = d \/ s.cocktails[c].image = Null

VARIABLES scene,      \* requests, and whether a user does one thing at a time
          users,      \* accounts
          cocktails,  \* number to row, or Null
          favs,       \* number to [user, on], or Null
          ratings,    \* user and cocktail or remote cocktail to score, or Null
          runs,       \* request to what it has read and what it does next
          given,      \* the last score each user was told to have given
          putBack     \* cocktails that a save gave back a picture they no longer had

tables == <<users, cocktails, favs, ratings>>
vars == <<scene, tables, runs, given, putBack, pictures>>

Requests == DOMAIN scene.asks
Ask(r) == scene.asks[r]
Ends == {"done", "refused", "failed"}
Running(r) == runs[r].pc \notin Ends \cup {"new"}
Idle == [pc |-> "new", c |-> Null, row |-> Null, fav |-> Null, rest |-> {}, round |-> 1]

(********************************** tables *********************************)
Unrated == << >>
Row(owner, public, parent, content) ==
  [owner |-> owner, public |-> public, parent |-> parent, content |-> content,
   deleted |-> FALSE, avg |-> Unrated, image |-> Null]
Live(c) == c \in Slots /\ cocktails[c] # Null /\ ~cocktails[c].deleted
Forks(t) == {c \in Slots : Live(c) /\ cocktails[c].parent = t}
OwnForks(u, t) == {c \in Forks(t) : cocktails[c].owner = u}
Of(u, t) == {i \in FavIds : favs[i] = [user |-> u, on |-> t]}
\* The unique indexes: one favorite of a thing for each user.
Clash(i, row) == row.user # Null /\ Of(row.user, row.on) \ {i} # {}
Scores(c) == {u \in Users : ratings[<<u, c>>] # Null}
Average(c) == [u \in Scores(c) |-> ratings[<<u, c>>]]
\* A number is not given again while a request knows the row it had.
Named(c) == \E r \in Requests : runs[r].c = c \/ (Ask(r).kind = "erase" /\ c \in runs[r].rest)
Fresh(c) == \A k \in 1..c : cocktails[k] = Null /\ ~Named(k) <=> k = c
\* DELETE of a cocktail takes its favorites and ratings along.
Drop(c) ==
  /\ cocktails' = [cocktails EXCEPT ![c] = Null]
  /\ favs' = [i \in FavIds |-> IF favs[i] # Null /\ favs[i].on = c THEN Null ELSE favs[i]]
  /\ ratings' = [k \in DOMAIN ratings |-> IF k[2] = c THEN Null ELSE ratings[k]]

Go(r, q) == runs' = [runs EXCEPT ![r] = q]
To(r, pc) == Go(r, [runs[r] EXCEPT !.pc = pc])
At(r, kind, pc) == Ask(r).kind = kind /\ runs[r].pc = pc
\* A signed-in user's request arrives: after the user's last one where users
\* are patient, after everybody's where they take turns.
Starts(r, kind) ==
  /\ At(r, kind, "new")
  /\ Ask(r).user \in users
  /\ \A s \in Requests : Running(s) => ~scene.inTurn /\ (scene.patient => Ask(s).user # Ask(r).user)
Keep(set) == UNCHANGED <<scene, given, putBack, pictures>> /\ UNCHANGED set
\* The handler has changed the disk or saved a row as well.
Beside(set) == UNCHANGED <<scene, given, photo, sweep>> /\ UNCHANGED set
Shown(c) == IF cocktails[c] = Null THEN Null ELSE cocktails[c].image
Tracked(c, image, fresh) ==
  putBack' = IF image = Shown(c) THEN putBack ELSE IF fresh \/ image = Null THEN putBack \ {c} ELSE putBack \cup {c}
\* What save() makes of a row read earlier.
SaveRow(r, row) ==
  IF row.owner \in users \cup {Null}
  THEN /\ cocktails' = [cocktails EXCEPT ![runs[r].c] = row]
       /\ Tracked(runs[r].c, row.image, row.image = r)
       /\ To(r, "done")
       /\ UNCHANGED disk
  ELSE To(r, "failed") /\ disk' = Without(r) /\ UNCHANGED <<cocktails, putBack>>

(********************************* recipes *********************************)
\* prepare: the cocktail of that id, deleted or not, or any fork of it.
Sources(u, on) ==
  IF on \in Slots /\ cocktails[on] # Null THEN {on} ELSE Forks(on)
PrepareFind(r) ==
  LET q == Ask(r) IN
  /\ Starts(r, "prepare")
  /\ IF Sources(q.user, q.on) # {}
     THEN \E c \in Sources(q.user, q.on) : Go(r, [Idle EXCEPT !.pc = "done", !.c = c])
     ELSE \E pc \in {"refused"} \cup (IF q.on \in Externals THEN {"insert"} ELSE {}) : To(r, pc)
  /\ Keep(tables)
\* A recipe may come with a picture, which the controller stores first; what it
\* has stored it unlinks if the service refuses or fails.
Upload(r) ==
  /\ Starts(r, "create") \/ Starts(r, "update")
  /\ Ask(r).picture
  /\ photo' = [photo EXCEPT ![r] = "full"]
  /\ To(r, "upload")
  /\ UNCHANGED <<scene, given, putBack, disk, sweep, tables>>
UploadFails(r) ==
  /\ runs[r].pc = "upload" /\ photo[r] = "broken"
  /\ To(r, "failed")
  /\ Keep(tables)
Ready(r, kind) ==
  IF Ask(r).picture THEN At(r, kind, "upload") /\ photo[r] = "saved" ELSE Starts(r, kind)
Uploaded(r) == IF photo[r] = "saved" THEN r ELSE Null
CreateStart(r) ==
  /\ Ready(r, "create")
  /\ To(r, "insert")
  /\ Keep(tables)
\* What an import is made of, and a new recipe or a fork.
Imported(q) == Row(q.user, TRUE, q.on, "original")
Made(r) ==
  LET q == Ask(r)
  IN  IF q.kind = "prepare" THEN Imported(q)
      ELSE IF q.kind = "update" THEN Row(q.user, TRUE, q.on, q.content)
      ELSE [Row(q.user, q.public, q.on, q.content) EXCEPT !.image = Uploaded(r)]
Insert(r) ==
  /\ runs[r].pc = "insert"
  /\ IF Ask(r).user \notin users THEN To(r, "failed") /\ disk' = Without(r) /\ UNCHANGED <<cocktails, photo>>
     ELSE \E c \in Slots :
            /\ cocktails[c] = Null
            /\ photo' = IF Ask(r).kind = "prepare" /\ Ask(r).picture THEN [photo EXCEPT ![r] = "full"] ELSE photo
            /\ UNCHANGED disk
            /\ Fresh(c)
            /\ cocktails' = [cocktails EXCEPT ![c] = Made(r)]
            /\ Go(r, [runs[r] EXCEPT !.c = c, !.pc = IF Made(r).parent \in Externals THEN "favorite" ELSE "done"])
  /\ UNCHANGED <<scene, given, putBack, sweep, users, favs, ratings>>
\* ingestAndUpdateCocktailImage: the picture of an import comes in beside
\* everything else, and replaces what the row shows by then.
IngestImage(r) ==
  LET c == runs[r].c IN
  /\ Ask(r).kind = "prepare" /\ photo[r] = "saved"
  /\ photo' = [photo EXCEPT ![r] = "stored"]
  /\ cocktails' = IF cocktails[c] = Null THEN cocktails ELSE [cocktails EXCEPT ![c].image = r]
  /\ putBack' = putBack \ {c}
  /\ UNCHANGED <<scene, given, runs, disk, sweep, users, favs, ratings>>
\* update: the owner's, in place or, once a public one is a favorite, as a fork.
UpdateRead(r) ==
  LET c == Ask(r).on IN
  /\ Ready(r, "update")
  /\ IF Live(c) /\ cocktails[c].owner = Ask(r).user
     THEN Go(r, [Idle EXCEPT !.pc = "count", !.c = c, !.row = cocktails[c]]) /\ UNCHANGED disk
     ELSE To(r, "refused") /\ disk' = Without(r)
  /\ Beside(<<tables, putBack>>)
UpdateCount(r) ==
  /\ At(r, "update", "count")
  /\ To(r, IF runs[r].row.public /\ \E i \in FavIds : favs[i] # Null /\ favs[i].on = runs[r].c
           THEN "insert" ELSE "save")
  /\ Keep(tables)
UpdateSave(r) ==
  /\ At(r, "update", "save")
  /\ SaveRow(r, [runs[r].row EXCEPT !.content = Ask(r).content,
                                    !.image = IF Ask(r).picture THEN r ELSE Shown(runs[r].c)])
  /\ Beside(<<users, favs, ratings>>)
RemoveRead(r) ==
  LET c == Ask(r).on IN
  /\ Starts(r, "remove")
  /\ IF Live(c) /\ cocktails[c].owner = Ask(r).user
     THEN Go(r, [Idle EXCEPT !.pc = "save", !.c = c, !.row = cocktails[c]])
     ELSE To(r, "refused")
  /\ Keep(tables)
RemoveSave(r) ==
  /\ At(r, "remove", "save")
  /\ SaveRow(r, [runs[r].row EXCEPT !.deleted = TRUE])
  /\ Beside(<<users, favs, ratings>>)
\* reviewReport, resolved: in one transaction the reported cocktail is deleted,
\* its files are unlinked, and the report names its reviewer, if there still is one.
ResolveRead(r) ==
  LET c == Ask(r).on IN
  /\ Starts(r, "resolve")
  /\ IF cocktails[c] = Null THEN To(r, "done")
     ELSE Go(r, [Idle EXCEPT !.pc = "drop-cocktail", !.c = c, !.row = cocktails[c]])
  /\ Keep(tables)
Resolve(r) ==
  /\ At(r, "resolve", "drop-cocktail")
  /\ disk' = Without(runs[r].row.image)
  /\ IF Ask(r).user \in users THEN Drop(runs[r].c) /\ To(r, "done")
     ELSE To(r, "failed") /\ UNCHANGED <<cocktails, favs, ratings>>
  /\ Beside(<<users, putBack>>)

(******************************** favorites ********************************)
\* Nor that of a favorite.
Held(i) == \E r \in Requests : runs[r].fav = i \/ (Ask(r).kind = "list" /\ i \in runs[r].rest)
FavoriteCheck(r) ==
  /\ Starts(r, "favorite")
  /\ To(r, IF Ask(r).on \in Externals \/ Live(Ask(r).on) THEN "insert-favorite" ELSE "refused")
  /\ Keep(tables)
FavoriteInsert(r) ==
  LET row == [user |-> Ask(r).user, on |-> Ask(r).on] IN
  /\ At(r, "favorite", "insert-favorite")
  /\ IF row.user \notin users \/ (row.on \in Slots /\ cocktails[row.on] = Null) \/ Clash(0, row)
     THEN To(r, "failed") /\ UNCHANGED favs
     ELSE \E i \in FavIds : /\ \A k \in 1..i : favs[k] = Null /\ ~Held(k) <=> k = i
                            /\ favs' = [favs EXCEPT ![i] = row]
                            /\ To(r, "done")
  /\ Keep(<<users, cocktails, ratings>>)
\* remove: findOne, then DELETE by the id of the row, wherever it points by then.
UnfavoriteRead(r) ==
  LET mine == Of(Ask(r).user, Ask(r).on) IN
  /\ Starts(r, "unfavorite")
  /\ IF mine = {} THEN To(r, "refused")
     ELSE \E i \in mine : Go(r, [Idle EXCEPT !.pc = "drop", !.fav = i])
  /\ Keep(tables)
UnfavoriteDrop(r) ==
  /\ At(r, "unfavorite", "drop")
  /\ favs' = [favs EXCEPT ![runs[r].fav] = Null]
  /\ To(r, "done")
  /\ Keep(<<users, cocktails, ratings>>)
\* findAll reads the user's favorites, hydrateExternalFavorites saves back the
\* remote ones; a row gone in between returns without its user.
ListRead(r) ==
  /\ Starts(r, "list")
  /\ Go(r, [Idle EXCEPT !.pc = "save-back",
                        !.rest = {i \in FavIds : favs[i] # Null /\ favs[i].user = Ask(r).user
                                                                 /\ favs[i].on \in Externals},
                        !.row  = favs])
  /\ Keep(tables)
ListSave(r) ==
  LET back == [i \in FavIds |->
        IF i \notin runs[r].rest THEN favs[i]
        ELSE IF favs[i] = Null THEN [runs[r].row[i] EXCEPT !.user = Null]
        ELSE [user |-> favs[i].user, on |-> runs[r].row[i].on]]
      good == \A i, k \in FavIds : back[i] # Null /\ back[i].user # Null /\ back[i] = back[k] => i = k
  IN  /\ At(r, "list", "save-back")
      /\ favs' = IF good THEN back ELSE favs
      /\ To(r, "done")
      /\ Keep(<<users, cocktails, ratings>>)
\* migrateFavoritePointer: create calls it for every recipe that has a parent,
\* prepare once more for an import.
Migrated(r) ==
  IF Ask(r).kind # "prepare" THEN "done" ELSE IF runs[r].round = 1 THEN "favorite" ELSE "rating"
MigrateRead(r) ==
  LET mine == Of(Ask(r).user, Made(r).parent) IN
  /\ runs[r].pc = "favorite"
  /\ IF mine = {} THEN Go(r, [runs[r] EXCEPT !.pc = Migrated(r), !.round = 2])
     ELSE \E i \in mine : Go(r, [runs[r] EXCEPT !.pc = "repoint", !.fav = i])
  /\ Keep(tables)
\* Variant: on a clash both rows are removed.
RepointedNeither(r) ==
  LET i   == runs[r].fav
      row == [user |-> Ask(r).user, on |-> runs[r].c]
  IN  IF row.user \notin users \/ cocktails[row.on] = Null THEN favs
      ELSE IF Clash(i, row) THEN [k \in FavIds |-> IF k = i \/ favs[k] = row THEN Null ELSE favs[k]]
      ELSE [favs EXCEPT ![i] = row]
\* The row read is saved with its new target; the redundant one of two goes,
\* and one gone in between comes back without its user.
Repointed(r) ==
  LET i   == runs[r].fav
      row == [user |-> Ask(r).user, on |-> runs[r].c]
  IN  IF row.user \notin users \/ cocktails[row.on] = Null THEN favs
      ELSE IF Clash(i, row) THEN [favs EXCEPT ![i] = Null]
      ELSE [favs EXCEPT ![i] = IF favs[i] = Null THEN [row EXCEPT !.user = Null] ELSE row]
MigrateSave(r) ==
  /\ runs[r].pc = "repoint"
  /\ favs' = Repointed(r)
  /\ Go(r, [runs[r] EXCEPT !.pc = Migrated(r), !.round = 2])
  /\ Keep(<<users, cocktails, ratings>>)

(********************************* ratings *********************************)
\* The rating getUserRating answers with.
UserRating(u, e) ==
  IF \E c \in OwnForks(u, e) : ratings[<<u, c>>] # Null
  THEN ratings[<<u, CHOOSE c \in OwnForks(u, e) : ratings[<<u, c>>] # Null>>] ELSE ratings[<<u, e>>]
\* migrateExternalRating, after an import: the score becomes the import's.
MoveRead(r) ==
  LET score == ratings[<<Ask(r).user, Ask(r).on>>] IN
  /\ At(r, "prepare", "rating")
  /\ Go(r, [runs[r] EXCEPT !.row = score, !.pc = IF score = Null THEN "done" ELSE "move-find"])
  /\ Keep(tables)
MoveFind(r) ==
  /\ At(r, "prepare", "move-find")
  /\ Go(r, [runs[r] EXCEPT !.fav = ratings[<<Ask(r).user, runs[r].c>>], !.pc = "move-store"])
  /\ Keep(tables)
\* A score stored in between stays; without its user or its cocktail it fails.
MoveStore(r) ==
  LET u == Ask(r).user
      c == runs[r].c
  IN  /\ At(r, "prepare", "move-store")
      /\ IF u \in users /\ cocktails[c] # Null
         THEN /\ To(r, "move-remove")
              /\ ratings' = IF (runs[r].fav = Null) = (ratings[<<u, c>>] = Null)
                            THEN [ratings EXCEPT ![<<u, c>>] = runs[r].row] ELSE ratings
         ELSE To(r, "done") /\ UNCHANGED ratings
      /\ Keep(<<users, cocktails, favs>>)
MoveRemove(r) ==
  /\ At(r, "prepare", "move-remove")
  /\ ratings' = [ratings EXCEPT ![<<Ask(r).user, Ask(r).on>>] = Null]
  /\ To(r, "done")
  /\ Keep(<<users, cocktails, favs>>)
\* Variant: anybody's fork of a remote cocktail is the one rated.
RatedAnyFork(u, on) == IF Live(on) THEN {on} ELSE IF Forks(on) # {} THEN Forks(on) ELSE {on} \cap Externals
\* rateCocktail: the cocktail of that id, else one's own fork of it, else the
\* remote one.
Rated(u, on) == IF Live(on) THEN {on} ELSE IF OwnForks(u, on) # {} THEN OwnForks(u, on) ELSE {on} \cap Externals
RateTarget(r) ==
  LET set == Rated(Ask(r).user, Ask(r).on) IN
  /\ Starts(r, "rate")
  /\ IF set = {} THEN To(r, "refused")
     ELSE \E t \in set : Go(r, [Idle EXCEPT !.pc = "rate-find", !.c = t,
                                            !.row = IF t \in Slots THEN cocktails[t] ELSE Null])
  /\ Keep(tables)
RateFind(r) ==
  /\ At(r, "rate", "rate-find")
  /\ Go(r, [runs[r] EXCEPT !.fav = ratings[<<Ask(r).user, runs[r].c>>], !.pc = "rate-store"])
  /\ Keep(tables)
RateStore(r) ==
  LET u == Ask(r).user
      t == runs[r].c
      there == u \in users /\ (t \in Slots => cocktails[t] # Null)
  IN  /\ At(r, "rate", "rate-store")
      /\ IF runs[r].fav = Null /\ (~there \/ ratings[<<u, t>>] # Null)
         THEN To(r, "failed") /\ UNCHANGED ratings
         ELSE /\ ratings' = IF runs[r].fav # Null /\ ratings[<<u, t>>] = Null
                            THEN ratings ELSE [ratings EXCEPT ![<<u, t>>] = Ask(r).score]
              /\ To(r, "average")
      /\ Keep(<<users, cocktails, favs>>)
RateAverage(r) ==
  /\ At(r, "rate", "average")
  /\ Go(r, [runs[r] EXCEPT !.row = IF runs[r].c \in Slots THEN [@ EXCEPT !.avg = Average(runs[r].c)] ELSE Null,
                           !.pc = "rate-save"])
  /\ Keep(tables)
\* The cocktail, read without its owner, is saved with the new average.
RateSave(r) ==
  LET c == runs[r].c
      u == Ask(r).user
      e == IF Ask(r).on \in Externals THEN Ask(r).on
           ELSE IF runs[r].row.owner = u THEN runs[r].row.parent ELSE Null
  IN  /\ At(r, "rate", "rate-save")
      /\ cocktails' = IF c \in Externals THEN cocktails
                      ELSE [cocktails EXCEPT ![c] =
                             [runs[r].row EXCEPT !.owner = IF cocktails[c] = Null THEN Null ELSE cocktails[c].owner]]
      /\ IF c \in Externals THEN UNCHANGED putBack ELSE Tracked(c, runs[r].row.image, FALSE)
      /\ given' = [k \in DOMAIN given |-> IF k = <<u, e>> THEN Ask(r).score ELSE given[k]]
      /\ To(r, "done")
      /\ UNCHANGED <<scene, users, favs, ratings, pictures>>

(********************************* erasure *********************************)
\* deleteUserAccount: deleteUserData goes through the cocktails as read first.
EraseRead(r) ==
  /\ Starts(r, "erase")
  /\ Go(r, [Idle EXCEPT !.pc = "erase-cocktails", !.row = cocktails,
                        !.rest = {c \in Slots : cocktails[c] # Null /\ cocktails[c].owner = Ask(r).user}])
  /\ Keep(tables)
\* What is saved or removed is the row as read then, and its picture.
Disown(r, c) ==
  /\ cocktails' = [cocktails EXCEPT ![c] = [runs[r].row[c] EXCEPT !.owner = Null]]
  /\ Tracked(c, runs[r].row[c].image, FALSE)
  /\ UNCHANGED <<favs, ratings, disk>>
\* Variant: private recipes are kept without their owner too.
AnonymizeAll(r, c) == Disown(r, c)
\* A public recipe stays without its owner, a private one goes.
AnonymizeOrRemove(r, c) ==
  IF runs[r].row[c].public THEN Disown(r, c)
  ELSE Drop(c) /\ disk' = Without(runs[r].row[c].image) /\ UNCHANGED putBack
EraseOne(r) ==
  /\ At(r, "erase", "erase-cocktails")
  /\ \E c \in runs[r].rest :
       /\ AnonymizeOrRemove(r, c)
       /\ Go(r, [runs[r] EXCEPT !.rest = @ \ {c}])
  /\ Beside(users)
EraseData(r) ==
  /\ At(r, "erase", "erase-cocktails")
  /\ runs[r].rest = {}
  /\ favs' = [i \in FavIds |-> IF favs[i] # Null /\ favs[i].user = Ask(r).user THEN Null ELSE favs[i]]
  /\ To(r, "erase-user")
  /\ Keep(<<users, cocktails, ratings>>)
\* The account goes, and with it its favorites and ratings; its cocktails lose
\* their owner.
EraseUser(r) ==
  LET u == Ask(r).user IN
  /\ At(r, "erase", "erase-user")
  /\ users' = users \ {u}
  /\ favs' = [i \in FavIds |-> IF favs[i] # Null /\ favs[i].user = u THEN Null ELSE favs[i]]
  /\ ratings' = [k \in DOMAIN ratings |-> IF k[1] = u THEN Null ELSE ratings[k]]
  /\ cocktails' = [c \in Slots |-> IF cocktails[c] # Null /\ cocktails[c].owner = u
                                   THEN [cocktails[c] EXCEPT !.owner = Null] ELSE cocktails[c]]
  /\ To(r, "done")
  /\ UNCHANGED <<scene, given, putBack, pictures>>

(********************************** system *********************************)
Init ==
  /\ scene \in Scenes
  /\ users = Users
  /\ cocktails = [c \in Slots |-> IF c \in DOMAIN scene.cocktails THEN scene.cocktails[c] ELSE Null]
  /\ favs = [i \in FavIds |-> IF i \in DOMAIN scene.favs THEN scene.favs[i] ELSE Null]
  /\ ratings = [k \in Users \X (Slots \cup Externals) |-> IF k \in DOMAIN scene.ratings THEN scene.ratings[k] ELSE Null]
  /\ runs = [r \in Requests |-> Idle]
  /\ given = [k \in Users \X Externals |-> UserRating(k[1], k[2])]
  /\ putBack = {}
  /\ disk = UNION {Files(Shown(c), TRUE) : c \in {k \in Slots : Shown(k) # Null}}
  /\ photo = [r \in Requests |-> "none"]
  /\ sweep = [pc |-> "idle", found |-> {}, took |-> {}]

Recipes(r) == \/ PrepareFind(r) \/ CreateStart(r) \/ Insert(r) \/ UpdateRead(r) \/ UpdateCount(r) \/ UpdateSave(r)
              \/ RemoveRead(r) \/ RemoveSave(r) \/ ResolveRead(r) \/ Resolve(r)
Fetching(r) == photo[r] \in {"full", "thumb"} \/ (photo[r] = "saved" /\ Ask(r).kind = "prepare")
Quiet == \A r \in Requests : ~Running(r) /\ ~Fetching(r)
Storing(r) == \/ WriteFull(r) \/ WriteThumb(r)
Sweeping == \/ SweepList \/ SweepRead \/ SweepFile \/ HourPasses(Quiet)
Pictures(r) == \/ Upload(r) \/ UploadFails(r) \/ IngestImage(r)
               \/ Storing(r) /\ UNCHANGED <<scene, tables, runs, given, putBack>>
Favorites(r) == \/ FavoriteCheck(r) \/ FavoriteInsert(r) \/ UnfavoriteRead(r) \/ UnfavoriteDrop(r)
                \/ ListRead(r) \/ ListSave(r) \/ MigrateRead(r) \/ MigrateSave(r)
Ratings(r) == \/ MoveRead(r) \/ MoveFind(r) \/ MoveStore(r) \/ MoveRemove(r)
              \/ RateTarget(r) \/ RateFind(r) \/ RateStore(r) \/ RateAverage(r) \/ RateSave(r)
Erasure(r) == EraseRead(r) \/ EraseOne(r) \/ EraseData(r) \/ EraseUser(r)
Finished == (\A r \in Requests : runs[r].pc \in Ends \cup {"new"}) /\ UNCHANGED vars
Next ==
  \/ Finished
  \/ Sweeping /\ UNCHANGED <<scene, tables, runs, given, putBack>>
  \/ \E r \in Requests : Recipes(r) \/ Pictures(r) \/ Favorites(r) \/ Ratings(r) \/ Erasure(r)

Spec == Init /\ [][Next]_vars

(******************************** properties *******************************)
Resolved == \E r \in Requests : Ask(r).kind = "resolve"
\* What was prepared or forked from a thing counts as that thing.
Same(t, on) == on = t \/ (on \in Slots /\ cocktails[on] # Null /\ cocktails[on].parent = t)
Withdrawn(u, t) == \E r \in Requests :
  Ask(r).user = u /\ runs[r].pc # "new" /\ (Ask(r).kind = "erase" \/ (Ask(r).kind = "unfavorite" /\ Same(t, Ask(r).on)))
Favored(u) == {t \in Externals : \/ \E i \in DOMAIN scene.favs : scene.favs[i] = [user |-> u, on |-> t]
                                 \/ \E r \in Requests : /\ Ask(r).kind = "favorite" /\ runs[r].pc = "done"
                                                        /\ Ask(r).user = u /\ Ask(r).on = t}
\* A remote cocktail once a favorite stays one, itself or as an import or a fork
\* of it, until it is withdrawn or a moderator deletes that: whatever import,
\* fork, second click or listing goes on meanwhile.
FavoritesKept ==
  ~Resolved => \A u \in users : \A t \in Favored(u) :
    Withdrawn(u, t) \/ \E i \in FavIds : favs[i] # Null /\ favs[i].user = u /\ Same(t, favs[i].on)

Settled(u) == scene.patient /\ u \in users /\ \A r \in Requests : Ask(r).user = u => ~Running(r)
Removed(c) == \E r \in Requests : Ask(r).kind = "remove" /\ runs[r].pc = "done" /\ runs[r].c = c
Lost(u, e) == \E c \in Slots : /\ cocktails[c] # Null /\ cocktails[c].parent = e /\ cocktails[c].owner = u
                               /\ cocktails[c].deleted \/ Removed(c)
\* The rating a user gave a remote cocktail is the one shown from then on, also
\* once it has been imported, forked and rated again as the import: unless there
\* are two forks, or one was removed, even if a save brought that back.
RatingFollows ==
  ~Resolved => \A u \in Users : Settled(u) =>
    \A e \in Externals : Cardinality(OwnForks(u, e)) <= 1 /\ ~Lost(u, e) => UserRating(u, e) = given[<<u, e>>]

\* An update has put another picture in the place of the request's.
Replaced(r) == \E s \in Requests : Ask(s).kind = "update" /\ Ask(s).picture /\ runs[s].pc = "done" /\ runs[s].c = runs[r].c
\* An erased account leaves no favorite, rating or recipe in its name, and, where
\* it did one thing at a time, no picture it had put on a private recipe, unless
\* that was replaced; and no private recipe belongs to nobody, unless someone was
\* rating that one.
ErasedLeavesNothing ==
  /\ \A u \in Users \ users :
       /\ \A i \in FavIds : favs[i] # Null => favs[i].user # u
       /\ \A k \in DOMAIN ratings : k[1] = u => ratings[k] = Null
       /\ \A c \in Slots : cocktails[c] # Null => cocktails[c].owner # u
       /\ \A r \in Requests :
            scene.patient /\ Ask(r).user = u /\ Ask(r).kind = "create" /\ ~Ask(r).public /\ runs[r].pc = "done"
              => Replaced(r) \/ \A f \in disk : f.pic # r
  /\ scene.patient => \A c \in Slots : cocktails[c] # Null /\ cocktails[c].owner = Null /\ ~cocktails[c].public =>
       \E r \in Requests : Ask(r).kind = "rate" /\ runs[r].c = c

\* A picture that a recipe shows keeps its files, both of them, until they are an
\* hour old and the nightly job takes them, however uploads, edits, downloads,
\* deletions and that job overlap: unless a save brought back an older picture, or
\* a verdict failed after its files had gone.
PicturesShown ==
  \A c \in Slots \ putBack :
    \/ Shown(c) = Null \/ Accounted(Shown(c))
    \/ \E r \in Requests : Ask(r).kind = "resolve" /\ runs[r].c = c /\ runs[r].pc = "failed"
=============================================================================
