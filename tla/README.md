# MixologyHub in TLA+

MixologyHub is a bar management system: a NestJS backend over PostgreSQL and
Redis, an Angular frontend, and an MCP server for AI clients. This directory
holds TLA+ models of its stateful core, the TLC configurations that check them,
and proofs that TLAPS checks. Paths below are relative to the repository;
`backend/` stands for `src/backend/src/`, `app/` for `src/frontend/src/app/`.

## 1. The system

| component | state | operations | talks to | what makes it correct |
|---|---|---|---|---|
| Order requests, `backend/cocktails/cocktails.service.ts` | `preparation_logs` | prepare, batchPrepare, undo, cancelPreparation, getPreparationStatus | adds jobs to the `bar-orders` queue | a saved order is settled; undo at most once |
| Queue, `backend/queue/queue.module.ts` (BullMQ, Redis) | waiting and active jobs | add, take, acknowledge, stalled check | one worker, concurrency 1, attempts 1 | every job is processed; at least once under crashes |
| Order processor, `backend/queue/bar-orders.processor.ts` | one transaction: locked rows, remaining stock in memory, uncommitted draws | processPrepare, processBatchPrepare, processBatchUndo, (processUndo) | `bar_inventory`, `preparation_logs` | all or nothing; stock conserved and never negative; a completed order has every line in full |
| Bar inventory, `backend/inventory/bar-inventory.service.ts` | `bar_inventory`, one row an ingredient | addToInventory, updateInventoryItem, removeFromInventory, bulkAdd, bulkDelete | row locks shared with the processor; clears the cache | no edit is lost; recently used rows are kept |
| Makeability, `backend/inventory/makeability.service.ts` | cached pages of 60 s | getMakeableCocktails, scoreCocktail | inventory, recipes, ingredient catalog | bounded age; what is promised can be ordered; pages add up |
| Search, `backend/cocktails/cocktail-aggregator.service.ts` | cached lists of 60 s | searchUnified | library, TheCocktailDB, makeability | what is shown fits the filters |
| Library, `backend/cocktails`, `favorites`, `rating` services | cocktails and forks, favorites, ratings | import, create, update, remove, favorite, list, rate, migrate | each other; TheCocktailDB | favorites and ratings follow an import |
| Ingredient catalog, `backend/ingredients` | ingredients, parents, synonyms; a cache | create, update, remove, findBestMatch, expandIngredientQuery, ...; merges, promotions, synonyms and generated recipes write the table too | all that names ingredients | no cycles; the cache follows the table |
| Administration, `backend/admin/admin.service.ts` | reports, hidden cocktails, settings | mergeIngredients, reviewReport, mapSynonym, ... | inventory, catalog, library | a merge keeps the total stock |
| Authentication, `backend/auth` | users (lockout, versions), refresh tokens, blacklist, global salt | login, refreshToken, logout, resetPassword, unlock, e-mail change, revokeAllSessions | settings cache, mailer | locks hold, sessions are limited, revocations reach |
| Users and GDPR, `backend/users` | users, logs | profile, anonymise, erase, clean up | all tables | only idle accounts are anonymised, nothing is left of an erased one |
| AI bartender, `backend/ai` | daily quota, history | generate, regenerate, save | LLM adapter, library, catalog | the daily limit; the best attempt |
| MCP server, `backend/mcp` | tickets and sessions in the cache, SSE map, rate limiter | ticket, sse, messages, executeTool | inventory, orders | a ticket opens one session; 30 calls a minute |
| Web client, `app/core` | session, order screen, favorites | refresh, retries, polling, toggles | the API | a live session stays alive, an order is followed |
| Images, `backend/images` | two files a picture | upload, download of an import's, unlink, nightly clean-up | rows of the library | what is shown is on the disk, until the clean-up comes |
| Email, health, seeder, pages | none | I/O | - | - |

Hard behaviour: the worker's long transaction runs between admin transactions
and unlocked reads of the HTTP handlers; the queue delivers at least once; the
log and the job live in two stores without a common transaction; caches are
filled and cleared around commits; nearly every handler reads entities, awaits
something, and saves them, and TypeORM's `save` writes every column in which the
entity differs from the row by then, and inserts the row again if it has gone;
tokens, quotas and limits are checked before and changed after an await.

## 2. The modules

    OrderLedger            what the order pipeline promises, abstractly
    BarOrders              the order pipeline: handlers, queue, worker, admins
      BarOrdersLedger      BarOrders with the refinement mapping to OrderLedger
        MCBarOrders
        BarOrders_proofs   types and control, row locks, deliveries, undo, failure; the
                           stock adds up, orders are served, the refinement
    StockTransactions      transactions on bar_inventory, statement by statement
        MCStockTransactions
      StockTransactions_proofs    no update is lost; ordered locking excludes deadlock

    RedisCache             the one cache
      Makeability          makeability pages against stock and invalidation
      Mcp                  MCP tickets, sessions, connections, rate limiter
        SharedCache        both over the one cache
          MCSharedCache
        SharedCache_proofs  age of pages, MCP connections and tickets, the rate

    Accounts               the users table
      Sessions             tokens over the accounts
        MCSessions
        Sessions_proofs    locks, anonymisation, the limit, tokens that have ended, the salt

    Hierarchy              the ingredient table: functions
      Catalog              its writers, walkers and searchers over the cache
        MCCatalog
        Catalog_proofs     cycles and stale entries
    Measures               parsing and conversion: functions
      Scoring              (with Hierarchy) what the bar can make: functions
        Discovery          the unified search, pages, and the bar the functions are checked on
          MCDiscovery

    Images                 pictures on the disk and their nightly clean-up
      Library              recipes, favorites, ratings, moderation, erasure
        Bartender          the AI bartender on top of it
          MCLibrary
          Library_proofs   the quota, the best answer, the pictures, the favorites
            LibraryErasure_proofs    what an erasure leaves, where a rating is kept

    Client                 one tab of the web client
      FavoriteList         its list of favorites
        MCClient
        Client_proofs      the session and the list

An operator marked "Variant" is a way in which the operator after it could have been
written wrongly; PROJECT.json names the property that tells the two apart.

### BarOrders

One variable per piece of state the code keeps. `log` is the table
`preparation_logs` (`status`, `undone`, `deductions` for
`deducted_ingredients`), `ing` and `qty` are `bar_inventory` (a row id without
an ingredient is not in the table), `waiting` and `orphans` the queue. The
section "worker process" is the state of the one job in progress: `pc` is the
next statement group, `draft` the TypeORM entity in memory, `entries` the
deductions collected, `held`, `rem`, `drawn`, `made` the transaction (rows
locked, the Map `remainingStock`, uncommitted decreases, uncommitted inserts).
PostgreSQL runs at READ COMMITTED: committed state is in the table variables,
an uncommitted write is seen by the worker only (`SeenIng`, `qty - drawn`), and
a row in `held` makes everybody else wait (`Free`).

| actions | code |
|---|---|
| `SaveLog`, `AddPrepareJob` | `prepare`, `batchPrepare`: save the log, then add the job |
| `UndoCheck`, `AddUndoJob` | `undo`: checks, then add the job (always `batch-undo`) |
| `CancelRead`, `CancelDiff`, `CancelUpdate` | `cancelPreparation`: read, TypeORM's reload and column diff, UPDATE of those columns |
| `Take`, `Ack`, `Recover`, `Crash` | BullMQ and the Node process |
| `ReadLog`, `SaveEvaluating`, `LockStock` | head of `processPrepare` / `processBatchPrepare` |
| `SkipLine`, `RefuseLine`, `AllocateLine`, `Deduct`, `NextLine` | the loop over recipe lines and rows |
| `Complete`, `Throw`, `RecordFailure` | commit; rollback; the catch handler's UPDATE |
| `CheckUndo`, `Restore`, `CreateRow`, `FinishUndo` | `processBatchUndo` |
| `AddStock`, `SetStock`, `RemoveStock`, `BulkDeleteCheck`, `BulkDelete` | `bar-inventory.service.ts` |
| `GrowOld` | time against the 15-minute and 16-minute windows |

The two prepare processors differ in what they lock (`LockScope`: a single
order locks the descendants of its ingredients, a batch only the ingredients
its recipes name); everything else is common and modelled once.

What is abstracted:

- Amounts are integers in base units. Unit conversion, servings and part sizes
  give the amount of a `Requirement`; descendants, names and synonyms give
  `Below` (what a single order locks) and `Subs` (what may serve a line of what is locked).
  The ingredient catalog and the recipes are constant. (`Scoring` has the
  amounts and the substitutes, for one serving.)
- `history` variables (`supplied`, `tally`, `age`, `born`, `used`) record what
  the properties speak of and count the bounded actors; no guard of the code
  depends on `supplied` or `tally`.
- `evaluating` and `preparing` are written inside the transaction that ends with
  `completed` or is rolled back, so nobody but the worker ever sees them.
- One cancellation is in flight per order. TypeORM's reload and UPDATE inside
  the worker's `save` are one step; what a cancellation in between could lead
  to is reached by other interleavings.
- An admin transaction takes its locks with one statement and is one action.
  `bulkAdd` is a sequence of `AddStock` here; `StockTransactions` has its
  statements. `UndoCheck` reads the log once; `undo` reads it a second time for its
  checks (`cocktails.service.ts:393-443`). The lock statements with an eagerly joined ingredient are taken to
  be accepted by PostgreSQL.
- The in-process caches, notifications and log output are left out.

### OrderLedger and the refinement

`OrderLedger` is the promise: an order is served in one step that takes one of
its servings (`Servings`: the sums of its lines, lenient lines at will) from the
stock, or refused without effect, and undo puts back exactly what was taken.
`BarOrdersLedger` reads an order's abstract state off its log, `took` off the
recorded deductions and `stock` off the rows. `ImplementsLedger` is checked by
TLC where substitution, cancellation and crashes are excluded: with them the
implementation does not keep the promise (section 5).

### StockTransactions

`BarOrders` gives each admin request one step and keeps the catalog constant.
This module looks at the same table from the side of the database: several
transactions, one step a statement, each statement taking its row locks one by
one (`Acquire`), and PostgreSQL's detector breaking circles (`Detect`). The two
modules share no state; what the one takes for granted (a locked row stays as it
is, a request is atomic) is what the other looks into.

`Request` gives each transaction its kind and its items. `pc[t]` is its next
statement, `seen[t]` what its entities hold in memory, `dirty[t]` what it has
written and not committed, `stock` and `catalog` what is committed.

| actions | code |
|---|---|
| `Find`, `LockRow`, `CountRows`, `Save` | `addToInventory`, and each round of `bulkAdd`: ingredient, SELECT FOR UPDATE, count, save |
| `LockRow`, `Assign` | `updateInventoryItem` |
| `Find`, `LockRow`, `Restore` | `processBatchUndo`; an ingredient that is gone is passed over |
| `Scan`, `Take` | `processBatchPrepare`: one locking SELECT, then an UPDATE an allocation |
| `CheckMerge`, `ReadSource`, `ReadTarget`, `MergeInto`, `DropSource`, `Unlist` | `mergeIngredients` |
| `Acquire`, `Insert`, `Detect`, `Commit`, `Rollback` | PostgreSQL: row locks, the unique index and the foreign key, deadlocks |

`Sorted` stands for the sort of `bulkAdd`, which is stable. `Amount` is a recursive function, the
sum of what the items ask for of one ingredient.

What is abstracted:

- The lock of an ingredient covers its stock row, the entry of the unique index
  and the ingredient row: one transaction that holds one of them and another that
  needs a second one of the same ingredient meet in every statement modelled.
- An update of the catalog is visible when the merge commits. The merge's updates
  of recipes and of the hierarchy touch no stock.
- A statement that waits sees, when it goes on, the rows as they are then;
  PostgreSQL would not see rows inserted during its wait.
- TypeORM's `save` reloads the row and writes the changed columns; the reload and the
  UPDATE are one step, except that a moved row may keep the quantity it was read
  with or the current one (`MergeInto`).
- Rows are named by their ingredients. `updateInventoryItem` addresses a row by its
  id, which makes a difference when a merge moves the row to another ingredient
  meanwhile: no run combines the two.
- `removeFromInventory` and `bulkDelete` are in `BarOrders` only.

### Accounts and Sessions

`row` is the `users` table, `req` the handlers in progress: `pc` is the statement a
handler executes next, `copy` its entity. `Save` is `repository.save`: the row becomes
the entity, whatever it was by then, and `overtaken` remembers whose row was put back
from an entity that was out of date (the properties that such a save can break exclude
those users, section 5). `Sessions` adds `refresh_tokens`
(`active`, `issued`), the signed tokens (`token`), `token_blacklist` (`black`), the
global salt and its cached copy. A pair of tokens is named by the request that issued it.

| actions | code |
|---|---|
| `RegisterCheck`, `RegisterInsert`, `LoginRead`, `LoginFail`, `LoginPass` | `register`, `login` |
| `AskReset*`, `Reset*`, `AskUnlock*`, `Unlock*`, `Verify*`, `AskEmail*`, `Email*`, `Update*` | the mails, and what their links do; the profile, whose address another account may have (`UpdateRefused`) |
| `ReadSalt`, `InsertToken`, `ListSessions`, `Evict` | `generateTokens`, `enforceSessionLimit` |
| `RefreshCheck`, `RefreshFind`, `RefreshUser`, `Rotate*` | `refreshToken`: the blacklist, its record, its user, the rotation |
| `Logout*`, `LogoutAll`, `ResetRevoke`, `EmailCommit`, `RevokeAll*` | what ends sessions |
| `Access*`, `CacheCleared` | `validateUser` through the cached salt |
| `RetainRead`, `RetainSave` | `anonymizeInactiveUsers`, a batch in one transaction |
| `CleanResetTokens`, `CleanVerification`, `CleanBlacklist`, `CleanSessions` | `auth-cleanup.service.ts`, `cleanupExpiredTokens` |

Two facts of the libraries are in the model. bcrypt compares the first 72 bytes, which
all refresh tokens of a user have in common, so a lookup may find any unrevoked record
of the user (`Matching`). And each rotation starts a new token family, so the family of
a token is that token alone (`RevokeFamily`).

### RedisCache, Makeability, Mcp, SharedCache

`cache` is the one cache-manager store: keys to values with a lifetime on the clock
`now`. `Invalidated(whole)` is `clearByPatterns`: page keys only, or everything, when the
store offers no scan or a scan fails. In `Makeability` the stock is its version number;
`edit` goes through clearing and committing, `reader` through the cache, the tables and
the fill. `Mcp` has `conn` (SSE requests), `sse` (the map of the process), `call`
(messages and the tool they run), `limiter` (the calls of each window with their times),
and `minted`, a history of when each ticket was handed out.

| actions | code |
|---|---|
| edits and orders, `ReadCached`, `ReadStock`, `FillPage` | `bar-inventory.service.ts`, the worker, `getMakeableCocktails` |
| `GenerateTicket`, `SseTicket`, `SseDelete`, `SseStore`, `SseConnect`, `SseClose`, `SseLeave` | `mcp-ticket.service.ts`, `sse` and its close listener |
| `MessageFind`, `MessageSession`, `Execute`, `Reply`, `Purge` | `messages`, `executeTool`, the rate limiter and its timer |

### Hierarchy and Catalog, Measures, Scoring, Discovery

`Hierarchy`, `Measures` and `Scoring` are functions: of the ingredient table (`Ancestors`,
`Descendants`, `Expand`, `Substitutions`, `IsValid`, ...), of a line's text and unit
(`Parse`, `Convert`: fractions, factors in hundredths), of the stock (`Verdict` of the
list, `Checked` of the MCP tool, `Filled` of an order for one serving, `Scanned` and the
pages). A name similar to another one (pg_trgm) is the constant `Fuzzy`.

`Catalog` runs all that writes the table: `ingredients.service.ts` (`UpdateRead`,
`UpdateUnits`, `UpdateSave`, `CreateCheck`, `CreateSave`, `RemoveRead`, `RemoveRow`), the
administration (`MergeRead`, `MergeCommit`, `PromoteRead`, then `UpdateSave`; `SynonymRead`,
`SynonymSave`) and generated recipes (`GeneratedRead`, `GeneratedInsert`). `ClearCache`
comes behind them as a step of its own, but not behind the last two, which never clear. Beside
them run a walker (`getAncestors`, and `detectCycle` inside an update: `AskHit`, `AskMiss`,
`AskFill`, `UpStart`, `UpStore`, one row at a time through the cache; `getDescendants`:
`DownStart`, `DownStore`) and a searcher (`findBestMatch`: `SearchName`, `SearchCached`,
`SearchRead`, `SearchFill`, ...). `unchecked` remembers that a parent was set on what was no
longer so, or by a merge into an ingredient below the one merged; `late` which entries were
put into the cache, or overtaken by a row written back, after what they hold had changed;
`added` which ingredients came with generated recipes. A merge commits in one step after its
first reads. `mapSynonym` lower-cases what it stores, and two synonyms that differ in
nothing else are one here. Not in it are the seeder and `warmupCache`, which run before the first request, and
the retention job, which sets `createdBy` only: no walk or search reads that column.

`Discovery` has searches through the cached list (`SearchCached`, `SearchFetch`,
`SearchFill`; a search by name answers lines without their ingredients, `Nameless`), an admin
who hides remote cocktails, a client that pages through the
makeable cocktails (`Turn`), and deliveries under which the functions of `Scoring` are
compared with each other.

### Images, Library and Bartender

`cocktails`, `favs` and `ratings` are the tables; `runs[r]` is what the handler of
request `r` has read and does next; `scene` fixes the requests, what is there before
them, and whether users are `patient` (one request at a time each) or all requests take
turns. `Cocktail` and `Favorite` are the rows; an average is kept as the scores it is taken
of. Ids are UUIDs in the code: here they are small numbers, and one that a request still
knows is not given again (`Fresh`, `Held`). `SaveRow` is `repository.save` of what was read earlier. `prepare` imports and
migrates; `create` with a remote parent forks; `favorite`, `unfavorite`, `list` (which
migrates and saves back), `rate`, `update`, `remove`, `resolve`
(`admin.service.ts`) and `erase` (`deleteUserAccount`, `deleteUserData`) go statement by statement.
`Bartender` adds the quota, the history and the catalog of ingredients, with `Generate`,
`ToolTurn`, `ModelAnswers`, `ModelFails`, `Compare`, `Consume`, `Record`, the saving of a
kept recipe (`SaveRead`, `Brew`, `LookUp`, `MakeName`, `SaveCocktail`, `SaveMark`), and
the language model as an environment that answers with any of `Replies`.

`disk` is the directory of uploads; `photo[r]` is how far the picture of request `r` has
come. `Upload` begins one for `create` and `update`, `IngestImage` stores the one of an
import, which is downloaded beside its handler; `WriteFull` and `WriteThumb` write its
files. The catch of the controller (`Insert`, `UpdateRead`, `SaveRow`), the moderator's
verdict (`Resolve`) and an erasure (`AnonymizeOrRemove`) unlink them; `SweepList`,
`SweepRead`, `SweepFile` are the job at three in the morning, to which no picture counts as named
(`Referenced`, section 5); `sweep.took` is what it has removed. `putBack` remembers which rows
a save gave an older picture. An erasure's unlink and removal of one recipe are one step, as are
the unlinks and the commit of a verdict. `UnfavoriteRead` leaves out that
`findOne` saves the favorite it has read, with the name it has fetched for it, before the DELETE
that takes it (`favorites.service.ts:239-257`).

### Client and FavoriteList

JavaScript runs one callback at a time, so an action is what one answer, timer or click
makes the client do; the server's side of a request is the action before it. `access`,
`csrf`, `authed`, `timer` and `page` are the stores; `call[c].stage` is how far a request
is: sent, waiting for the shared refresh, sent again, waiting for the CSRF handshake,
answered. `Scene` says which requests and faults a behaviour has. `FavoriteList` puts
`favorite.store.ts` on top: `items` on the screen, `rows` at the server; `Add` and `Remove` change
the list at once, `Added`, `Removed`, `Rejected` and `PutBack` are the answers. The list is empty until
its page asks for it; `Load`, `LoadServe` and `Loaded` are that request, of which the answer, a page of
the rows there were, takes the place of the whole list. `unseen` remembers the rows no load has
brought.

## 3. The runs

| run | what happens in it | checks | outcome |
|---|---|---|---|
| `BarOrders_core` | 2 orders, 1 failing statement, 2 undos, 2 admin requests, all ages | `TypeOK`, `StockAccounted`, `FailedTookNothing`, `ImplementsLedger` | holds |
| `BarOrders_hostile` | 1 order, substitution; 3 crashes, 2 cancellations, 2 undos, 1 admin request, 1 error | `RemainingIsStock`, `FullyServed`, `UndoneOnce`, `TakenPerDelivery` | holds |
| `BarOrders_live` | fairness; 2 orders, 1 cancellation, 2 undos, 1 admin request | `OrdersSettle`, `QueueDrains` | holds |
| `StockTx_admin` | two bulk-adds, a set, an add of a new ingredient | `NoDeadlock` | holds |
| `StockTx_mixed` | fairness; bulk-add, order, undo, a merge of 2 into 3 | `CommitsApply`, `AllEnd` | holds |
| `StockTx_deadlock` | bulk-add, order | `NoDeadlock` | violated |
| `Sessions_mixed` | 2 users, 3 addresses, up to 4 requests, 8 mixes of operations | `LockoutHolds`, `SessionsBounded`, `RevocationReaches`, `LoggedOutStaysOut`, `OldSaltBounded`, `AnonymizedIdle` | holds |
| `SharedCache_mixed` | 2 edits, 1 order and 3 readers; or tickets, 3 connections and 4 calls of 3 users; or a clear among those | `AnswersBounded`, `TicketSpent`, `RateBounded`, `OpenIsReachable` | holds |
| `Catalog_mixed` | any forest of 3 ingredients and two requests, or three requests over 2 | `CyclesAreUnchecked`, `StaleOnlyByRace` | holds |
| `Discovery_mixed` | every table of 4 ingredients; every recipe of 1 or 2 lines with every stock up to 3; every list of up to 6 verdicts; every pair of 12 searches | `RelativesRight`, `PromisesKept`, `FiltersAgree`, `PagesAddUp`, `AnswersFit` | holds |
| `Library_mixed` | 25 scenes of 2 users, 3 cocktails, 4 favorites, 2 days, 1 nightly clean-up | `FavoritesKept`, `RatingFollows`, `ErasedLeavesNothing`, `PicturesShown`, `QuotaHolds`, `BestAnswer` | holds |
| `Client_mixed` | fairness; 13 scenes of up to 3 requests, 2 polls, 2 orders, 2 drinks; expiry, loss, revocation, idle timer | `KeptAlive`, `ListShowsRows`, `AllAnswered`, `OrderFollowed` | holds |

Every run stops when its requests are used up, hence CHECK_DEADLOCK FALSE (`Library` and
`Bartender` say so with `Finished`).

What the properties say:

- *Orders.* No unit of stock is lost or invented (`StockAccounted`); what the worker
  remembers of a locked row is what the table holds (`RemainingIsStock`); a completed
  order has every line in full (`FullyServed`), a failed one has taken nothing
  (`FailedTookNothing`); restored once at most (`UndoneOnce`), taken once for each
  delivery at most (`TakenPerDelivery`); settled in the end (`OrdersSettle`).
- *Stock transactions.* `CommitsApply` compares each commit with the transaction run
  alone on the stock as it is at that moment (`Effect`): no update is lost, and none is
  made twice.
- *Sessions.* A lock lasts, unless a save of an older row lifts it (`LockoutHolds`); sessions stay within the limit but for
  those whose handler has yet to enforce it (`SessionsBounded`); a reset, a change of
  address or a logout from everywhere ends every session of the user and lets none descend from
  an ended one, but for handlers on their way to a token (`RevocationReaches`; the global
  revocation ends none, section 5); a rotated or logged-out refresh token is never looked up
  again, cleanups included (`LoggedOutStaysOut`); an old salt is honoured for one cache
  period at most (`OldSaltBounded`); nobody who has logged in lately is anonymised
  (`AnonymizedIdle`).
- *Cache.* An answer shows a stock that was in force at most a minute ago
  (`AnswersBounded`): the early clear and the missing one cost nothing beyond the
  lifetime. A ticket opens a session within its lifetime, counted from when it was
  handed out, and only for requests that looked it up before its first use was over (`TicketSpent`); no user has more calls in a window than the rate unless the window
  was evicted (`RateBounded`); an open connection that shares its session with no other
  one is the one in the map (`OpenIsReachable`).
- *Catalog.* A cycle takes a race, a stale entry, or a merge into an ingredient below the one
  merged (`CyclesAreUnchecked`). The parents and units in the cache differ from the table only
  before the clear or when a request that was overtaken put them there or wrote an old row back
  (`StaleOnlyByRace`); synonyms, and ingredients missing from the list of all because a generated
  recipe added them, are outside of it, since nothing clears for them.
- *Discovery.* Relatives, substitutes and validation are what the table implies
  (`RelativesRight`); a recipe that is said to be makeable is filled when ordered, and the
  MCP tool agrees with the list (`PromisesKept`); the four filters agree on what a query
  stands for (`FiltersAgree`); pages add up to what was scored (`PagesAddUp`); what is
  shown fits the search and is in its order (`AnswersFit`), as long as no search with other lists of
  ingredients has its key; for local cocktails found by name, whose lines have no names, excluded
  ingredients and the order by makeability are left out.
- *Library.* A favorite follows its cocktail (`FavoritesKept`), the last rating is the one
  shown (`RatingFollows`), also after the cocktail was imported, but not where two forks
  compete or one was removed; erasure is complete (`ErasedLeavesNothing`), a replaced picture
  apart; and no
  upload, download, edit, verdict or deletion takes away a picture that is shown, nor the nightly
  clean-up one that is younger than an hour (`PicturesShown`): the hour that the clean-up waits
  is what protects an upload that no row names yet, and the only thing that does.
- *AI.* `QuotaHolds`: no more than the limit is answered a day, and only what was
  generated is counted. `BestAnswer`: what is paid for is the best of all attempts.
- *Client.* A live session is kept alive (`KeptAlive`), every request is answered
  (`AllAnswered`), an order is followed to its end (`OrderFollowed`), the list of
  favorites ends up as the server has it, but for rows no load has brought, once a load
  has come in quiet or since no load or removal crossed a toggle (`ListShowsRows`).

### Bounds

`BarOrders`: `o1` is a single order for 2 of `i1` and 1 of `i2`, `o2` a batch
for 1 of `i1` and an optional 2 of `i2`; rows `r1`, `r2` hold 2 each and `r3` is a
free id. Either order can be served, both not in full: competition, refusal
and skipping all happen. With `MCSubs` a recipe for `i1` may be served from `i2`,
and an order then spreads one line over two rows. The bounds are the smallest at which
the interesting cases meet: two undo requests so that a second is queued behind the
first, two admin requests so that a row can be deleted and added again under another id
while an undo is running, three crashes against a stalled limit of one.

`StockTransactions`: three ingredients, of which 1 and 2 are in stock and 3 is not; items
are listed in crossing orders (`bulk1` 2 then 1, `bulk2` 1, 3, 2, the order 2, 1, 2), so
that unsorted locking does deadlock.

`Sessions`: a menu fixes what each request may be and how long the clock runs, because
four requests of any kind are out of reach: wrong and right passwords around resets and
unlock mails; address changes overtaking each other; a token rotated, logged out and
presented until it expires; three uses of one token; two clients and the end of all
sessions; the salt; a reset against refreshes; the retention job. Two failures lock an
account, one session is allowed, and times are one to three units of the clock, so that
each limit is met and passed.

`SharedCache`: a page lives for 3 of 4 units, so that several stock versions fit into its
life; two calls a window and two remembered users against three users and four calls, so
that windows fill, purge and evict. What a behaviour is about (pages; a clear; tickets;
the limiter) is chosen at its start.

`Catalog`: three ingredients are enough for a cycle that two updates close together; one
cache entry may run out. `Discovery`: `MaxIterations` 5 and limits of 1 to 3 against up
to 6 candidates pass both ends of the scan; amounts include parts, weights, counts and 0.
`Library`: the scenes put three to five requests around one import, one fork, one erasure or
one generation, or uploads, a download and the clean-up around one picture. `Limit` is 1 and there are two days. `Client`: two expired tokens, and one
lost answer in a behaviour; a page of favorites holds one (`PageSize`), so that the second drink is beyond
it.

### Fairness

`BarOrders`: weak fairness of the worker (its loop runs while the
process lives), of BullMQ's periodic stalled check, and of the second half of a
handler that has started (a promise chain in a live process goes on). Users,
admins, errors and crashes are never obliged to happen. `BarOrders_live` has no
crash and no failing statement: see below for what one crash does, and the failure
record itself is best effort.

`StockTransactions`: weak fairness of each transaction's statements
and of the deadlock detector, which runs again after every `deadlock_timeout`; a lock
that is waited for is not promised to anybody.

`Client`: weak fairness of the callbacks of answers and handshakes, of the server's answers (a
lost one is an answer, with a network error), of the poll timer, and of an order's reaching its end,
which is what `OrdersSettle` says of the backend. Users, expiry, revocation and the idle
timer are free.

### What the violation shows

*Deadlock* (`bar-orders.processor.ts:464`). One worker rules out deadlocks between
orders, not between an order and a bulk delivery: their lock orders differ. The decision
record 0017 (`:76`) promises a guarantee against deadlocks; PostgreSQL breaks them, and the
order ends as `failed_other` or the delivery with an error.

## 4. What is proved

The theorems about `BarOrders` hold for any sets of orders, rows and ingredients, any recipes,
any bounds, under the assumptions named in `BarOrders` (`RowsAssumption`,
`RecipeAssumption`, `StockAssumption`, `BoundsAssumption`): finitely many rows,
an ingredient substitutes itself, initial stock has one row per ingredient.

- `TypeCorrect`: `[]TypeOK`. The inductive invariant is `TypeInv == TypeOK /\
  Control`. `Control` says what the program counter implies: which kind of job is
  running, that `step` lies within the list the code is walking over, that the
  worker's transaction is empty outside of it. Without it the record written by
  `Complete` or the access `Lines[step]` has no type.
- `RemainingStock`: `[]RemainingIsStock`, from `StockInv`. It adds that rows which
  are not held have nothing drawn, that `rem` and `qty` agree on held rows, and that
  `qty` is never negative; each admin action preserves it because it needs `Free`.
  `StockNeverNegative` and `DeductNeverRefused` follow: a committed quantity is never
  negative, and "Stock changed during deduction" is never thrown.
- `TakenPerDeliveryHolds` and `UndoneOnceHolds`, from `DeliveryInv`. `Placed` bounds
  the deliveries of a job by its stalls, over the queue, the worker and the
  orphans together, and says a job is in one place only; `Restorable` says that
  an order whose restoration has committed has its `undone` flag set, in the table and
  in every copy of the row that can still be written back (the worker's draft,
  a cancellation's snapshot; `Cancelling`). The flag is why a redelivered undo and a
  stale cancellation are harmless to the stock.
- `FailedTookNothingHolds`: without crashes a failed order has taken nothing and no
  order takes twice, for any number of errors, cancellations and undos. So
  redelivery is the only way to take twice.
- `FullyServedHolds`: whatever crashes, cancellations and substitutes there are, the
  deductions of a completed order add up to its recipe. `ServedInv` says it of the worker's
  entries too: of the lines before `step` they hold all but lenient ones that
  were skipped, in full, and of the current line what `need` no longer asks for.
- `StockAccountedHolds` and `ImplementsLedgerHolds` assume that there is no crash, no
  cancellation and no substitute (`MaxCrashes = 0`, `MaxCancels = 0`, `Subs[i] = {i}`), as
  the run does: a crash after the commit takes the stock a second time, a
  cancellation that writes back an old row forgets what was taken, and an
  undo gives a substitute back as the ingredient the recipe names (section 5); each of
  them breaks both statements. Orders, undos, failing statements, and admins who delete and create rows
  between the statements of an order or an undo are unlimited. `LedgerInv` has four parts: an id that was
  ever the row of an ingredient is never that of another (`RowsInv`: why an undo may
  insert a row under the id it recorded); what was taken is what was asked for
  (`OrdersInv`); a row has given what the entries took of its ingredient so far
  (`PrepareInv`), or got back what the deductions before `step` took (`UndoInv`). The ledger of an ingredient is a
  sum over a finite set of orders of sums over their deductions; the lemmas on `Total` and
  `TookFor` (an element joins or leaves, one summand changes) come
  from the library's theorems on finite sets. The refinement adds that an order whose deliveries are pending is still
  `queued` (`PendingInv`); with it each step is one of `OrderLedger`'s or changes
  nothing of what it sees, and `Complete` is the only one that serves (`RefinementStep`).

The theorems about `StockTransactions` hold for any transactions, ingredients, requests and stock
under its assumptions (`IngredientsAssumption`, `NamesAssumption`, `RequestAssumption`,
`InitAssumption`): the ids are finitely many naturals, a request has at least one item, an
addition or a correction exactly one, and a merge two different ones.

- `CommitsApplyHolds` (`CommitsApply`): whatever adds, corrects, takes or restores has exactly
  its effect on the stock of the moment at which it commits. The inductive invariant `CommitInv`
  has three parts. `Guarded`: what a transaction has written it owns until its end, so that no
  other commit touches those rows. `Informed`: a quantity that was read with FOR UPDATE, and from
  which `addToInventory`, `bulkAdd` and the undo go on, is still that of the row; drop the lock of
  the SELECT (`LocksNoSelect`) and this is what fails. `Applied`: after n items what is written to
  an ingredient is what these n items make of its *committed* stock, and the ingredients not yet
  reached are untouched; it speaks of the committed stock of now, so it has to survive the commits
  of all others, which `Guarded` gives (`Undisturbed`). Every statement is one of five kinds
  (`StatementGoes`: takes a lock, looks, passes over an item, writes, ends), and only a write
  carries the sum one item further (`AmountNext`, `WriteApplies`). Merges are among the
  transactions that interfere; of their own effect nothing is claimed, because they read without
  a lock (section 5).
- `OrderedLocking`: additions, corrections, bulk-adds, whatever order they list their items in, and
  undos of deductions in the order of the ids, any number of them (`OneByOne`), satisfy
  `[]NoDeadlock`. The inductive invariant is `LocksBehind`: nobody owns a lock above its current
  item. In a circle the member that waits for the highest lock (`Highest`, from the
  well-foundedness of the naturals) waits for one whose owner waits for the same lock, which it
  owns. That the sort of `bulkAdd` puts its items in that order is proved
  (`SortedAscends`): a stable arrangement of every list exists (`ArrangementExists`), so the one
  that `Sorted` chooses is ascending.

The theorems about `Sessions` hold for any users, addresses, requests and menus, any limits and
times, under the assumptions of `Accounts` and `Sessions` (`NumbersAssumption`,
`RequestsAssumption`, `NullAssumption`, `RowsAssumption`, `TimesAssumption`,
`TokensAssumption`): bounds and times are naturals, and `Null` is no user, no row and no
token.

- `LockoutAlways` (`LockoutHolds`) and `AnonymizedOnlyIdle` (`AnonymizedIdle`) rest on
  `AccountInv`: the type of every row and every handler's copy, and what a handler's
  `pc` says of its copy. A step is sorted into the classes of what it does to the rows
  (`Steps`, `Saves`, `RetainSave`, `RegisterInsert`, `Cleans`, `Tick`), so that each
  part is proved once a class and not once an action. Only a save from an outdated copy
  can lift a lock early or hide a login, and those users are in `overtaken`.
- `LoggedOutForGood` (`LoggedOutStaysOut`): `TokenInv` adds what the statement of a
  handler says of the token it works with (`Flow`); `Frame` lists what each statement
  leaves alone. What was logged out is on the blacklist until it has expired (`Spent`),
  since its row lives as long as it does, and a refresh starts with a look there
  (`OutStep`).
- `RevocationFinal` (`RevocationReaches`): after a reset, a change of address or a logout from
  everywhere, whoever could still issue a token for the user was under way at that moment
  (`Reached`). The global revocation ends no record in the model, as in the code.
- `OldSaltExpires` (`OldSaltBounded`): a cached salt, and one that a slow reader is
  about to cache, is the current one or no older than its period (`Fresher`).
- `SessionsLimited` (`SessionsBounded`): the count of settled sessions cannot be kept by
  induction, because several handlers evict by lists that are out of date. `Limited` is
  inductive: there is a set of at most `MaxSessions` tokens (the ones that the
  handler listing last has kept) that has all settled tokens of the user, and of a
  handler that has yet to evict either its own token is in the set or the active part of the
  set is in its list (`Covers`). A handler that lists makes a new such set of the latest
  ones in its list; an eviction removes what its list has in excess, and what remains
  of the list is few.

The theorems about `SharedCache` hold for any stock versions, readers, edits, tickets,
connections and calls under `KeysAssumption`, `MakeabilityAssumption`, `McpAssumption`,
`TicketKeysAssumption` and `FocusAssumption` (keys of pages and of tickets differ, and what is
chosen at the start is chosen from the constants).

- `PagesAge` (`AnswersBounded`): `PageInv` bounds the age of what is in the cache, of what a
  reader holds, and of what it is about to put there.
- `OpenIsFound` (`OpenIsReachable`) and `TicketSpentOnce` (`TicketSpent`), from `McpInv`,
  which relates the stage of a connection to the cache and to the map of the process, and
  the expiry of a ticket's entry to when it was handed out.
- `RateKept` (`RateBounded`): `RateInv` says that the limiter has every call executed in the
  running window, for a user whose window was never evicted while it was live. So what fits
  the limiter's window bounds what was executed in any window.

The theorems about `Catalog` hold for any ingredients, tables, requests and names under
`OrderAssumption`, `RequestsAssumption` and `StartsAssumption`: the ids are finitely many, and
what is there at the start is a table without a cycle.

- `CyclesAreUncheckedHolds` (`CyclesAreUnchecked`). `CatalogInv` says of an update what it has
  walked over: as long as nothing was written (`Fresh`), no link leads out of the walk but
  from the row it asks for next (`Closed`), and the ingredient it moves is not in it. So, when
  the walk has ended, the new parent does not reach the moved ingredient, and the move makes no
  cycle (`MoveAcyclic`). A merge moves all children of one ingredient at once; the walk up from
  their new parent is closed as well (`WalkClosed`), and unless it comes by the ingredient merged, it meets none
  of them (`MergeAcyclic`). A new ingredient has no children (`LeafAcyclic`), and removals leave
  fewer links (`FewerLinks`), as does a synonym written back with the parent the row has by
  then. Paths are pairs of ingredients joined by some number of links; that number is counted
  with `NatClosed`, in which the induction is over a set and not an operator. A table without a
  cycle has no walk that comes back (`NoReturn`).
- `StaleOnlyByRaceHolds` (`StaleOnlyByRace`), inductive together with `CatalogInv`: the two
  writers that do not clear change no list of relatives (`SameRelatives`) and no parent or unit
  that an entry tells (`StaysAlike`), but where a row written back undoes another's write.

The theorems about `Library` and `Bartender` hold for any scenes, users and replies that their
`TypesAssumption`, `ScenesAssumption` and `BarAssumption` admit.

- `QuotaHoldsAlways` (`QuotaHolds`): `QuotaInv` says that the counter of a user and a day is the number of
  requests it was charged for (`Charged`), who has been charged by which statement
  (`Unpaid`), and of what shape the handlers' records are (`RunShape`, `OrderShape`).
- `BestAnswerHolds` (`BestAnswer`): `BestInv` says of the attempts of a request that the best
  one kept scores at least as high as every other, that none before the last was accepted,
  and that the history has recipes only, so that a request to regenerate asks for other
  names (`RecipesAssumption`).
- `PicturesShownHolds` (`PicturesShown`): a picture is on one cocktail only, the one its request
  works on, in the table and in every copy that may still be saved (`Pics`, `Reads`); one
  that waits to be shown has the files written so far, all younger than an hour (`Waiting`,
  `Young`), so that the job, which takes whatever it has listed and finds an hour old, leaves
  them: no handler is an hour under way. With these the property is inductive itself.
- `FavoritesKeptHolds` (`FavoritesKept`): `FavInv` says that tables and copies are well-typed (`Tables`,
  `Copies`); that until its owner leaves, what a copy of a cocktail says of its owner and
  parent is what the table says, and no other erasure will remove it (`Agree`);
  that an import or fork a favorite may be moved to is the user's own one of that remote
  cocktail (`Moving`); and that whatever requests believe of one row of favorites stands for
  the same remote cocktail, for the same user, as what the row says (`Beliefs`, `Kin`,
  `Akin`). Hence no move or listing can take away a favorite's last row (`StillThere`); a clash
  takes one of two that stand for the same.

The next two are in `LibraryErasure_proofs`. They add three assumptions on the constants, all
of the database: there is room for a number of cocktails, a rating that is there from the start
is of a cocktail there is (its foreign key), and what earlier erasures have left without an
owner is public. What a step does to the tables and to the copies of rows is stated once for
every action (`LibraryStep`, `RatingStep`); the invariants are then kept by case on those
few changes, most of them by a lemma on what others than the request's user do (`OthersKeep`,
`OthersFollow`).

- `ErasedLeavesNothingHolds` (`ErasedLeavesNothing`): `ErasureInv` says that favorites, ratings and rows
  belong to users there are (`LibraryBooks`), although saves insert rows again and imports
  are under way while an account goes; and of patient users, that they have one request
  under way and are still there (`Alone`, `Present`), that an erasure has all their cocktails before
  it (`Emptied`: none is made meanwhile), that an import does not put its picture on a
  recipe somebody else created (`Untaken`), and that while the picture of a private recipe is on
  the disk, the recipe and every copy of it that may still be saved shows it, is private and is
  that user's (`Traced`). The last is what the erasure needs, since it unlinks what its copy
  of a recipe names. A recipe without an owner is private only where it was being rated (`Warded`): the
  save that stores the average writes `public` back from its copy.
- `RatingFollowsHolds` (`RatingFollows`): `RatInv` says for a patient user and a remote cocktail of which
  at most one import or fork is the user's (`Sole`) that the score shown is the last one given, or
  the one of the request that has just stored it (`Follows`). It needs where a request that
  rates is about to write (`Aims`: to the import if there is one, and over the score it has
  read there), what an import carries until it has moved the rating (`Carries`: the
  import has no rating of its own before), that ratings are of cocktails there are (`Keyed`), so that a number
  given again starts without, and that a row is hidden by a removal somebody asked for only, whatever is saved from
  outdated copies (`Afresh`). Uniqueness is stated without counting in the invariant and comes from
  the theorems on cardinality at the end.

The theorems about `Client` hold for any requests, polls, orders and drinks, and any scenes
of faults, under the assumptions of the module.

- `KeptAliveHolds` (`KeptAlive`): `SessionInv` says that in an undisturbed session the
  refresh on its way, the token a retry carries and the one in memory are in force, and
  that only a write ever goes without one.
- `ListShowsRowsHolds` (`ListShowsRows`): the list on the screen is ahead of the server by exactly the
  toggles under way, and behind it by exactly the rows no load has brought (`Balanced`); ids that are temporary and ids of rows never meet
  (`TempsNamed`, `RowsNamed`), and no two removals are about one row (`Removable`). The
  induction showed that `tangled` (section 5) has one more case: two removals that fail
  together, each putting back a snapshot.

Left to TLC:

- liveness under fairness (`OrdersSettle`, `QueueDrains`, `AllEnd`, `AllAnswered`,
  `OrderFollowed`);
- the functions of `Hierarchy`, `Measures` and `Scoring`, which recurse over chains and
  lists, and `Discovery`, whose five properties compare them with reference definitions:
  `RelativesRight`, `PromisesKept`, `FiltersAgree`, `PagesAddUp`, `AnswersFit`. They filter and
  sort with `SelectSeq` and `SortSeq`, which the prover does not expand.

## 5. Known not to hold

Found while modelling. Each is a behaviour of the models; the properties of section 3 are
stated so that they hold beside it (a history variable or an explicit exception names it), and the
place in the text of the repository that says otherwise is quoted where there is one.

Orders and stock:

- An undo restores the ingredient of the recipe, not the row that was used
  (`bar-orders.processor.ts:793-820`; docs/product/use-cases/cocktail-preparation.md:123): with
  substitution stock appears where it was not taken. `StockAccounted` is checked without.
- A cancellation based on a stale read turns a completed order into a cancelled one
  (`cocktails.service.ts:484-510`); its stock is gone and undo refuses it. And the worker
  overwrites a cancellation committed after its read (`bar-orders.processor.ts:96-97`); the
  re-checks at 319-330 and 371-379 (cocktail-preparation.md:182) read the transaction's
  own write and cannot see it.
- A job delivered again after its commit is executed again (`bar-orders.processor.ts:89-97`;
  concurrency-serialization-summary.md:51); the record of its first deduction is lost.
- A log saved without a job (`cocktails.service.ts:300-310`) stays queued for ever:
  `BarOrders_live` fails with `MaxCrashes = 1`.
- What an order has taken is back after a merge that read the rows before it
  (`admin.service.ts:211-225`; inventory-management.md:162), and an undo after a merge restores
  a part and reports success (`bar-orders.processor.ts:786-791`; cocktail-preparation.md:48).
- Rows of recent orders are deleted by a bulk delete (`bar-inventory.service.ts:287-310`): the
  check is not under the lock that the single delete takes.
- The limit of 10,000 rows (`bar-inventory.service.ts:83-97`) is passed by concurrent adds:
  the count is not under a lock that inserts share.

Accounts and sessions:

- A login that read its row before a reset, an unlock or a lock saves the old columns
  back (`overtaken`); so does the retention job, or is undone by a login that overlaps it.
- A refresh may match any unrevoked record of its user (72 bytes of bcrypt), and reuse of
  a token does not end the tokens rotated from it, because each rotation starts a new
  family (`auth.service.ts:253`, `:358`; docs/product/use-cases/authentication.md:47).
- The global revocation (`auth.service.ts:634-637`) calls `update({}, ...)`, and TypeORM refuses
  empty criteria: the salt is raised and the cached copy dropped, then the request
  fails, and no record is revoked. Access tokens of the old salt are turned away, but
  `refreshToken` does not look at the salt and gives out new pairs.
- Only a login sets `lastLoginAt`: who keeps a session alive by refreshing is anonymised
  after a year, and the session outlives it. One failing save rolls the whole batch back.

Cache and MCP:

- A page cleared before the commit is filled again with the old stock, and orders do not
  clear at all: an answer may be a minute old, not more (`AnswersBounded`).
- cache-manager 7 keeps its stores elsewhere than the `store` that
  `clearByPatterns` asks for, so the whole clear is the usual case: every inventory edit
  drops the tickets and sessions of the MCP server.
- A client that leaves before the close listener is attached leaves its entry in the map;
  the first of two connections of one session removes the second's entry on closing.

Catalog, search, makeability:

- Overlapping re-parentings, or one checked through stale entries, close a cycle, and
  `findHierarchicalMatch` never comes to an end on it. A merge needs no race for that: merged
  into its own child or grandchild, an ingredient leaves the target as its own parent, or below itself
  (`admin.service.ts:232-237`). Merged with itself, an ingredient is removed.
- `mapSynonym` (`admin.service.ts:249-272`) and the ingredients a generated recipe adds
  (`ai.service.ts:1304-1312`) never clear the cache: for its lifetime a search does not find the
  synonym, nor the ingredient in the list of all. A synonym saved over an update that overlaps it
  takes the update back, cached or not.
- A unit may be changed under an ingredient that comes into use meanwhile; a removed
  ingredient is inserted again by an update that read it before; cached ingredients lose
  their Decimal density. A child may have another unit than its parent
  (inventory-management.md:174): `validateIngredientHierarchy` has no caller, nor have
  `findSubstitutions`, `findCommonAncestor` and `hasEnoughStock`.
- A cocktail may be on two pages of the makeable list, or the next page refused, since
  the scan stops at a full page and sorts afterwards. One line whose parts cannot be
  converted fails the whole list (`makeability.service.ts:178`;
  makeable-intelligence.md:36).
- The same ingredient on two lines is scored against the whole stock twice; the greedy
  allocation of an order may refuse a "makeable" recipe whose lines share rows; a rinse is never
  makeable; a line by mass of an ingredient by volume needs 0 in an order; parts are not
  multiplied by the servings.
- The MCP tool compares amounts it cannot convert as they are, and sees 200 rows only.
- A search by name (`cocktails.service.ts:547-594`) joins the lines of a cocktail without their
  ingredients: local cocktails found by it pass every exclusion and no inclusion, and sorted by
  makeability they all score 0 (`Nameless`).
- The key of a cached search omits the lists of ingredients (cocktail-discovery.md:132-135), and a
  source that is refused counts like one that is not mentioned, which is asked
  (`cocktail-aggregator.service.ts:708-709` and 725-730): who refuses a source may be shown it; the
  partial list of an outage is cached for a minute; only the first 100 local cocktails are
  searched, private ones included.

Library and AI:

- Two overlapping imports make two local cocktails; what is downloaded for an import
  replaces the picture a user has put there meanwhile, or is taken off again by a stale
  save.
- The clean-up selects `cocktail.image_full` and `cocktail.image_thumb`, which are columns and not
  properties of the entity, so the raw rows do not have the keys it reads
  (`image-cleanup.service.ts:39-53`): no picture counts as named, and every one older than an
  hour is removed at three in the morning, shown or not (`Referenced`).
- A save of a row read before its picture was replaced names the old files again, which
  are gone. A verdict whose moderator's account goes meanwhile is
  rolled back after the files have been unlinked (`admin.service.ts:100`). The picture
  of an edit that becomes a fork is dropped (`cocktails.service.ts:626-644`), and a
  private picture that has been replaced outlives an erasure until the clean-up.
- `prepare` serves deleted cocktails by id, and any user's fork. Stale saves revive
  removed cocktails, lose averages, and revert a favorite's public recipe
  (cocktail-discovery.md:122-128); the list's save-back reverts a migration or inserts a
  removed favorite again.
- A migrated rating is not in the average; with two forks of one's own it is open which
  rating is shown; a rating goes with its fork. A recipe made private during its owner's
  erasure stays, with no owner; the quota row goes with the account, under a running
  request.
- A higher-scored invalid recipe replaces a valid one (`ai.service.ts:274`); an error in
  the last attempt fails the request although an earlier one gave a recipe; saving twice
  makes two cocktails. The default limit is 50 where ai-bartender.md:116 says 20, and
  the answer 403. The web client saves with an id (`ai-...`) that is no record's.

Web client:

- After every page load the CSRF token is stale; the first write is refused with 403, and its
  retry carries no Authorization header, so it ends in a 401 (`auth.controller.ts:120`;
  authentication.md:38 promises a seamless refresh). A logout is such a write.
- `GET /auth/profile` returns no role; the idle timer is started by a login or a registration only; a 401
  while the profile is loaded inside a refresh makes that refresh wait for itself
  (`Wedged`); a refresh answered after a logout signs in again.
- The answer to a load (`favorite.store.ts:31-45`) replaces the list, and with it what was toggled
  while it was on its way (`tangled`); before the first load the list is empty although there
  are favorites, and it never shows more than the first page of ten: the heart of a cocktail
  beyond it looks empty, and setting it is refused (`unseen`).
- A removal of a favorite that fails puts back a snapshot that undoes other changes, and
  removing an entry with a temporary id restores a ghost (`tangled`).

## 6. Plan

In order; theorems are marked (T).

1. BarOrders, its ledger and proofs; StockTransactions; Sessions, SharedCache and their
   proofs; Catalog, Discovery, Library with images, Client (done).
2. (T) The ledger of BarOrders and its refinement, Catalog, Client, the quota, the
   pictures, favorites, ratings and erasures of Library, the session limit, the rate limit, the best answer
   and the stock transactions (done).
3. An abstract library (who has which favorite and rating) that `Library` implements where
   requests take turns.
4. UndoRestore: `processUndo`, the path not reached today, against `processBatchUndo`.
5. Merges inside recipes, beside orders; the clean-up of old
   preparation logs and empty stock rows.
6. Two tabs of the client over one pair of cookies; the stores of searches and inventory.

## 7. Not modelled

Text (prompts, e-mails, recipe parsing), the contents of images, rendering, HTTP
validation, seeding, and the SQL of searches: data transformations without shared
state. The fuzzy score and `closureMap` of the matcher, the fuzzy option of a search, volumes and complexity shown with
search results, findOne and profile upserts of the client, the contents of MCP and
AI tool answers. Two tabs that share cookies. Timing other than the order of events and the clocks
named above; computing an answer takes less than a unit of the clock, and in `Client` a
token outlives the one refresh and retry it was got for.
