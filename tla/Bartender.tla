------------------------------ MODULE Bartender ------------------------------
(***************************************************************************)
(* The AI bartender (ai.service.ts, llm-adapter.service.ts) on top of the   *)
(* recipe library: recipes are generated in a few attempts, each a talk of  *)
(* a few turns with the language model, paid from a daily quota, kept in a  *)
(* history, generated again from it, and saved from it as cocktails.        *)
(*                                                                         *)
(* Scores are thousandths.  The controller passes no options, so there are  *)
(* always MaxAttempts attempts, duplicates are looked for, and a recipe is  *)
(* saved as private without strict validation.                              *)
(***************************************************************************)
EXTENDS Library, Sequences

CONSTANTS Words,          \* names of ingredients
          Replies,        \* recipes the model may answer with
          Catalogued,     \* names of the ingredients there are
          Remote,         \* names only the remote catalogue knows
          Banned, HighProof, NonFood,  \* names with these words in them
          Limit,          \* AI_MAX_RECIPES_PER_DAY
          MaxIngredients, MaxAttempts, MaxTurns,
          MaxDays         \* bound: days in one behaviour

\* What the model writes: how many steps, and amounts of ingredients.
Recipe == [steps : Nat, ings : Seq([name : Words, amount : {"fit", "negative", "huge"}])]
\* A request asks for names, and a record of the history keeps a recipe.
ASSUME RecipesAssumption ==
  /\ Null \notin Recipe /\ Replies \subseteq Recipe
  /\ \A s \in Scenes :
       /\ \A r \in DOMAIN s.asks : s.asks[r].kind = "generate" => s.asks[r].ings \in Seq(Words)
       /\ \A i \in DOMAIN s.records : "recipe" \in DOMAIN s.records[i] /\ s.records[i].recipe \in Recipe
ASSUME BarAssumption == Limit \in Nat /\ MaxAttempts \in Nat \ {0} /\ MaxDays \in Nat \ {0}

RecordIds == 1..3         \* bound: generations kept in one behaviour

VARIABLES day, quota,     \* user and day to the count of the day
          records,        \* the history: [user, recipe, score, valid, saved], or Null
          catalog,        \* ingredients: name and the user whose custom one it is, or Null
          brewed          \* cocktails made from a record: their ingredients

ai == <<day, quota, records, catalog, brewed>>
barVars == <<vars, ai>>

Known == {row.name : row \in catalog}
Names(recipe) == [i \in DOMAIN recipe.ings |-> recipe.ings[i].name]
Within(seq, set) == Cardinality({i \in DOMAIN seq : seq[i] \in set})
Amounts(recipe, amount) == Cardinality({i \in DOMAIN recipe.ings : recipe.ings[i].amount = amount})

(******************************** validation *******************************)
\* checkForSafetyIssues: one for each strong or inedible ingredient, one more
\* where two are strong.
Dangers(recipe) ==
  LET strong == Within(Names(recipe), HighProof)
      bad    == Within(Names(recipe), NonFood)
  IN  [count |-> strong + bad + (IF strong > 1 THEN 1 ELSE 0), critical |-> strong > 1 \/ bad > 0]
\* validateGeneratedRecipe, with so many names asked for that nobody knows.
Verdict(recipe, unknown) ==
  LET brief == recipe.steps < 2
      score == 1000 - (IF recipe.steps = 0 THEN 300 ELSE 0) - (IF brief THEN 50 ELSE 0)
                    - (IF Len(recipe.ings) < 2 THEN 50 ELSE 0)
                    - 50 * Amounts(recipe, "negative") - 10 * Amounts(recipe, "huge")
                    - 100 * Dangers(recipe).count - 50 * unknown
  IN  [score |-> Max({0, score}), valid |-> ~Dangers(recipe).critical /\ score >= 700]
Accepted(verdict) == verdict.score >= 800 /\ verdict.valid
\* buildRecipeFromParsed: without ingredients, an ounce of each one asked for.
Built(reply, asked) ==
  IF reply.ings # << >> THEN reply
  ELSE [reply EXCEPT !.ings = [i \in DOMAIN asked |-> [name |-> asked[i], amount |-> "fit"]]]
\* checkForDuplicateRecipe: more than four fifths of the longer list in common.
Alike(a, b) == 10 * Within(a, {b[i] : i \in DOMAIN b}) > 8 * Max({Len(a), Len(b)})
Duplicate(recipe) == \E c \in Slots : cocktails[c] # Null /\ brewed[c] # Null /\ Alike(Names(recipe), brewed[c])

(******************************** generation *******************************)
\* validateIngredients: names neither the catalogue nor the remote one knows.
Unknown(asked) == Len(asked) - Within(asked, Known \cup Remote)
Asking(u, asked) ==
  [pc |-> "attempt", c |-> Null, row |-> Null, fav |-> Null, rest |-> {}, round |-> 1,
   asked |-> asked, unknown |-> Unknown(asked), turn |-> 0,
   best |-> Null, verdict |-> Null, tries |-> << >>, paid |-> Null]
\* What is asked for: the request's names, or those of a recipe in the history.
AskedFor(r) ==
  IF Ask(r).kind = "generate" THEN {Ask(r).ings}
  ELSE {Names(records[i].recipe) : i \in {k \in RecordIds \cap {Ask(r).on} : records[k] # Null /\ records[k].user = Ask(r).user}}
\* The input is checked, then the quota read, then banned names refused.
Generate(r) ==
  /\ \E kind \in {"generate", "regenerate"} : Starts(r, kind)
  /\ IF \E asked \in AskedFor(r) : /\ Len(asked) \in 1..MaxIngredients
                                   /\ quota[<<Ask(r).user, day>>] < Limit
                                   /\ Within(asked, Banned) = 0
     THEN \E asked \in AskedFor(r) : Go(r, Asking(Ask(r).user, asked))
     ELSE To(r, "refused")
  /\ Keep(<<tables, ai>>)
\* An attempt that throws counts; the last one fails the request, whatever the
\* earlier ones brought.
Thrown(r) ==
  IF runs[r].round = MaxAttempts THEN To(r, "failed")
  ELSE Go(r, [runs[r] EXCEPT !.round = @ + 1, !.turn = 0])
\* The model calls tools, which is one turn of a few.
ToolTurn(r) ==
  /\ runs[r].pc = "attempt"
  /\ IF runs[r].turn + 1 = MaxTurns THEN Thrown(r) ELSE Go(r, [runs[r] EXCEPT !.turn = @ + 1])
  /\ Keep(<<tables, ai>>)
\* It cannot be reached, answers without a recipe or with one that is not let
\* through, or a tool fails.
ModelFails(r) ==
  /\ runs[r].pc = "attempt"
  /\ Thrown(r)
  /\ Keep(<<tables, ai>>)
\* Variant: the last recipe counts.
BestLast(run, recipe, verdict) == [run EXCEPT !.best = recipe, !.verdict = verdict]
\* The recipe with the highest score, the earlier of equals.
Best(run, recipe, verdict) ==
  IF run.best = Null \/ verdict.score > run.verdict.score
  THEN [run EXCEPT !.best = recipe, !.verdict = verdict] ELSE run
ModelAnswers(r) ==
  /\ runs[r].pc = "attempt"
  /\ \E reply \in Replies :
       LET recipe  == Built(reply, runs[r].asked)
           verdict == Verdict(recipe, runs[r].unknown)
           run     == [Best(runs[r], recipe, verdict) EXCEPT !.tries = Append(@, verdict)]
       IN  Go(r, IF Accepted(verdict) \/ run.round = MaxAttempts THEN [run EXCEPT !.pc = "consume"]
                 ELSE [run EXCEPT !.round = @ + 1, !.turn = 0])
  /\ Keep(<<tables, ai>>)
\* Variant: the count read before the generation is trusted.
WithinLimitTrusted(u) == TRUE
\* The count returned by the statement that raised it.
WithinLimit(u) == quota[<<u, day>>] + 1 <= Limit
\* consumeUserQuota, on the day it has become by now.
Consume(r) ==
  LET u == Ask(r).user IN
  /\ runs[r].pc = "consume"
  /\ IF u \notin users THEN To(r, "failed") /\ UNCHANGED quota
     ELSE /\ quota' = [quota EXCEPT ![<<u, day>>] = @ + 1]
          /\ Go(r, [runs[r] EXCEPT !.pc = IF WithinLimit(u) THEN "compare" ELSE "refused", !.paid = day])
  /\ Keep(<<tables, day, records, catalog, brewed>>)
\* A duplicate loses a fifth of its score.
Compare(r) ==
  /\ runs[r].pc = "compare"
  /\ Go(r, [runs[r] EXCEPT !.pc = "record",
                           !.verdict.score = IF Duplicate(runs[r].best) THEN (4 * @) \div 5 ELSE @])
  /\ Keep(<<tables, ai>>)
\* A number is not given again while a save knows the record it had.
Knows(s, i) == Ask(s).kind = "save" /\ runs[s].fav = i
\* recordGeneration: the lowered score, and whether it was valid before.
Record(r) ==
  /\ runs[r].pc = "record"
  /\ IF Ask(r).user \notin users THEN To(r, "failed") /\ UNCHANGED records
     ELSE /\ \E i \in RecordIds :
               /\ \A k \in 1..i : records[k] = Null /\ (\A s \in Requests : ~Knows(s, k)) <=> k = i
               /\ records' = [records EXCEPT ![i] =
                    [user |-> Ask(r).user, recipe |-> runs[r].best, score |-> runs[r].verdict.score,
                     valid |-> runs[r].verdict.valid, saved |-> Null]]
          /\ To(r, "done")
  /\ Keep(<<tables, day, quota, catalog, brewed>>)

(********************************** saving *********************************)
\* validateAndSaveRecipe, as the controller calls it: the verdict is ignored.
SaveRead(r) ==
  LET i == Ask(r).on IN
  /\ Starts(r, "save")
  /\ IF i \in RecordIds /\ records[i] # Null /\ records[i].user = Ask(r).user
     THEN Go(r, [Idle EXCEPT !.pc = "look-up", !.fav = i, !.row = records[i]])
     ELSE To(r, "refused")
  /\ Keep(<<tables, ai>>)
Brew(r) == Names(runs[r].row.recipe)
\* mapIngredientsToEntities looks all names up at once, then makes the missing
\* ones, each on its own: one the user's other save made in between fails this
\* one and leaves those before it.
LookUp(r) ==
  /\ At(r, "save", "look-up")
  /\ Go(r, [runs[r] EXCEPT !.pc = "names", !.rest = {Brew(r)[i] : i \in DOMAIN Brew(r)} \ Known])
  /\ Keep(<<tables, ai>>)
MakeName(r) ==
  LET next == Head(SelectSeq(Brew(r), LAMBDA name : name \in runs[r].rest))
      row  == [name |-> next, by |-> Ask(r).user]
  IN  /\ At(r, "save", "names")
      /\ runs[r].rest # {}
      /\ catalog' = catalog \cup {row}
      /\ IF row \in catalog THEN To(r, "failed") ELSE Go(r, [runs[r] EXCEPT !.rest = @ \ {next}])
      /\ Keep(<<tables, day, quota, records, brewed>>)
Brewed(r) == Brew(r)
SaveCocktail(r) ==
  /\ At(r, "save", "names")
  /\ runs[r].rest = {}
  /\ IF Ask(r).user \notin users THEN To(r, "failed") /\ UNCHANGED <<cocktails, brewed>>
     ELSE \E c \in Slots :
            /\ Fresh(c)
            /\ cocktails' = [cocktails EXCEPT ![c] = Row(Ask(r).user, FALSE, Null, "own")]
            /\ brewed' = [brewed EXCEPT ![c] = Brewed(r)]
            /\ Go(r, [runs[r] EXCEPT !.pc = "mark", !.c = c])
  /\ Keep(<<users, favs, ratings, day, quota, records, catalog>>)
\* The record as read is saved again; discarded meanwhile, it is nobody's.
SaveMark(r) ==
  LET i == runs[r].fav IN
  /\ At(r, "save", "mark")
  /\ records' = [records EXCEPT ![i] =
       [runs[r].row EXCEPT !.saved = runs[r].c, !.user = IF records[i] = Null THEN Null ELSE records[i].user]]
  /\ To(r, "done")
  /\ Keep(<<tables, day, quota, catalog, brewed>>)
Discard(r) ==
  LET i == Ask(r).on IN
  /\ Starts(r, "discard")
  /\ IF i \in RecordIds /\ records[i] # Null /\ records[i].user = Ask(r).user
     THEN records' = [records EXCEPT ![i] = Null] /\ To(r, "done")
     ELSE To(r, "refused") /\ UNCHANGED records
  /\ Keep(<<tables, day, quota, catalog, brewed>>)

(********************************** system *********************************)
Midnight == day < MaxDays /\ day' = day + 1 /\ UNCHANGED <<vars, quota, records, catalog, brewed>>
\* What an erasure does to the history and the quotas, before and with the user.
Disowned(u) == [i \in RecordIds |-> IF records[i] # Null /\ records[i].user = u
                                    THEN [records[i] EXCEPT !.user = Null] ELSE records[i]]
EraseHistory(r) ==
  /\ EraseData(r) \/ EraseUser(r)
  /\ records' = Disowned(Ask(r).user)
  /\ quota' = [k \in DOMAIN quota |-> IF k[1] = Ask(r).user THEN 0 ELSE quota[k]]
  /\ catalog' = {IF row.by = Ask(r).user THEN [row EXCEPT !.by = Null] ELSE row : row \in catalog}
  /\ UNCHANGED <<day, brewed>>
\* cleanupOldAiData: old records that were not saved, in one statement.  Those
\* of before the behaviour are old by its end.
Old(i) == i \in DOMAIN scene.records /\ records[i] = scene.records[i] /\ records[i].saved = Null
CleanHistory ==
  /\ \E i \in RecordIds : Old(i)
  /\ records' = [i \in RecordIds |-> IF Old(i) THEN Null ELSE records[i]]
  /\ UNCHANGED <<vars, day, quota, catalog, brewed>>
BarInit ==
  /\ Init
  /\ day = 1
  /\ quota = [k \in Users \X (1..MaxDays) |-> 0]
  /\ records = [i \in RecordIds |-> IF i \in DOMAIN scene.records THEN scene.records[i] ELSE Null]
  /\ catalog = [name : Catalogued, by : {Null}]
  /\ brewed = [c \in Slots |-> Null]
Bartending(r) == \/ Generate(r) \/ ToolTurn(r) \/ ModelFails(r) \/ ModelAnswers(r) \/ Consume(r) \/ Compare(r) \/ Record(r)
                 \/ SaveRead(r) \/ LookUp(r) \/ MakeName(r) \/ SaveCocktail(r) \/ SaveMark(r) \/ Discard(r)
BarNext ==
  \/ Midnight \/ CleanHistory
  \/ \E r \in Requests : Bartending(r) \/ EraseHistory(r)
  \/ Finished /\ UNCHANGED ai
  \/ Sweeping /\ UNCHANGED <<scene, tables, runs, given, putBack, ai>>
  \/ \E r \in Requests : (Recipes(r) \/ Pictures(r) \/ Favorites(r) \/ Ratings(r) \/ EraseRead(r) \/ EraseOne(r))
                         /\ UNCHANGED ai
BarSpec == BarInit /\ [][BarNext]_barVars

(******************************** properties *******************************)
Orders == {r \in Requests : Ask(r).kind \in {"generate", "regenerate"} /\ runs[r].pc # "new" /\ runs[r].pc # "refused"}
Paid == {r \in Requests : Ask(r).kind \in {"generate", "regenerate"} /\ "paid" \in DOMAIN runs[r] /\ runs[r].paid # Null}
Erased(u) == \E r \in Requests : Ask(r).kind = "erase" /\ Ask(r).user = u /\ runs[r].pc # "new"
\* However many generations overlap each other and midnight, a user gets no more
\* recipes a day than the limit, and the day's count is what was generated for
\* it: nothing is counted for a generation that failed.
QuotaHolds ==
  \A u \in Users : ~Erased(u) => \A d \in 1..MaxDays :
    LET mine == {r \in Paid : Ask(r).user = u /\ runs[r].paid = d}
    IN  /\ Cardinality({r \in mine : runs[r].pc # "refused"}) <= Limit
        /\ quota[<<u, d>>] = Cardinality(mine)

\* What is paid for is the best of all attempts made, none is made after an
\* acceptable one, and the talk with the model ends after so many.
BestAnswer ==
  \A r \in Orders :
    LET tries == runs[r].tries IN
    /\ Len(tries) <= runs[r].round /\ runs[r].round <= MaxAttempts
    /\ \A i \in DOMAIN tries :
         /\ i < Len(tries) => ~Accepted(tries[i])
         /\ runs[r].pc = "compare" => runs[r].verdict.score >= tries[i].score

=============================================================================
