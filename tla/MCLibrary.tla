------------------------------ MODULE MCLibrary ------------------------------
(***************************************************************************)
(* Scenes for Library and Bartender: two users, one remote cocktail.         *)
(***************************************************************************)
EXTENDS Bartender, TLC

CONSTANTS ana, ben, margarita, gin, lime, bitters, moonshine, bleach

A(kind, user, on) == [kind |-> kind, user |-> user, on |-> on, content |-> "changed", public |-> TRUE, score |-> 5,
                       ings |-> <<gin, lime>>, picture |-> FALSE]
Picture(ask) == [ask EXCEPT !.picture = TRUE]
Private(ask) == [ask EXCEPT !.public = FALSE]
Of2(ask, ings) == [ask EXCEPT !.ings = ings]
Low(ask) == [ask EXCEPT !.score = 2]
Own(user, public, parent) ==
  [owner |-> user, public |-> public, parent |-> parent, content |-> "own", deleted |-> FALSE,
   avg |-> << >>, image |-> Null]
Shows(row) == [row EXCEPT !.image = 0]
S(patient, inTurn, rows, stars, scores, asks) ==
  [patient |-> patient, inTurn |-> inTurn, cocktails |-> rows, favs |-> stars, ratings |-> scores, asks |-> asks,
   records |-> << >>]
Ing(name) == [name |-> name, amount |-> "fit"]
Drink(steps, ings) == [steps |-> steps, ings |-> ings]
Kept(user, recipe) == [user |-> user, recipe |-> recipe, score |-> 1000, valid |-> TRUE, saved |-> Null]
Bar(patient, history, asks) ==
  [S(patient, FALSE, << >>, << >>, << >>, asks) EXCEPT !.records = history]
Nothing == << >>
Star(user, on) == [user |-> user, on |-> on]

Sour == Drink(2, <<Ing(gin), Ing(bitters)>>)
AllReplies == {
  Sour,
  Drink(1, <<Ing(gin), Ing(lime)>>),
  Drink(2, <<>>),
  Drink(2, <<Ing(moonshine), [name |-> moonshine, amount |-> "huge"]>>),
  Drink(0, <<Ing(moonshine), [name |-> lime, amount |-> "negative"]>>) }

AllScenes == {
  \* favorites while imports, forks and listings go on
  S(FALSE, FALSE, Nothing, <<Star(ana, margarita)>>, Nothing,
    <<A("prepare", ana, margarita), A("favorite", ana, 1), A("list", ana, Null)>>),
  S(FALSE, FALSE, Nothing, <<Star(ben, margarita)>>, Nothing,
    <<A("create", ben, margarita), A("favorite", ben, margarita), A("list", ben, Null)>>),
  S(FALSE, FALSE, Nothing, <<Star(ana, margarita)>>, Nothing,
    <<A("prepare", ana, margarita), A("unfavorite", ana, margarita), A("list", ana, Null)>>),
  S(FALSE, FALSE, <<Own(ana, TRUE, Null)>>, Nothing, Nothing,
    <<A("update", ana, 1), A("favorite", ben, 1), A("unfavorite", ben, 1), A("update", ana, 1)>>),
  S(FALSE, FALSE, Nothing, <<Star(ana, margarita), Star(ben, margarita)>>, Nothing,
    <<A("prepare", ana, margarita), A("create", ana, margarita), A("favorite", ana, margarita), A("list", ana, Null),
      A("prepare", ben, margarita)>>),
  \* ratings before and after imports and forks
  S(TRUE, FALSE, Nothing, Nothing, Nothing,
    <<A("rate", ana, margarita), A("prepare", ana, margarita), Low(A("rate", ana, margarita)), A("prepare", ben, margarita)>>),
  S(TRUE, FALSE, Nothing, Nothing, (<<ana, margarita>> :> 3),
    <<A("create", ana, margarita), A("rate", ana, margarita), A("rate", ben, 1)>>),
  S(TRUE, FALSE, Nothing, Nothing, (<<ana, margarita>> :> 3) @@ (<<ben, margarita>> :> 4),
    <<A("prepare", ana, margarita), A("rate", ben, margarita), A("rate", ana, 1), A("rate", ben, 1)>>),
  S(FALSE, FALSE, Nothing, Nothing, (<<ana, margarita>> :> 3),
    <<A("prepare", ana, margarita), A("rate", ana, 1), A("rate", ana, 1)>>),
  \* erasure
  S(TRUE, FALSE, <<Own(ana, TRUE, Null), Own(ana, FALSE, Null)>>, <<Star(ana, 1), Star(ben, 2)>>, (<<ana, 1>> :> 4),
    <<A("erase", ana, Null), A("rate", ben, 1), A("favorite", ben, 1)>>),
  S(TRUE, FALSE, <<Own(ana, TRUE, Null)>>, <<Star(ana, margarita)>>, (<<ana, margarita>> :> 4),
    <<Private(A("create", ana, Null)), A("erase", ana, Null), A("prepare", ben, margarita), A("resolve", ben, 1)>>),
  S(FALSE, FALSE, <<Own(ana, TRUE, Null)>>, <<Star(ben, 1)>>, Nothing,
    <<A("erase", ana, Null), A("update", ana, 1), A("remove", ana, 1)>>),
  S(FALSE, FALSE, <<Own(ana, FALSE, Null)>>, Nothing, Nothing,
    <<A("erase", ana, Null), A("rate", ben, 1), A("favorite", ben, 1), A("create", ana, margarita)>>),
  S(FALSE, FALSE, Nothing, <<Star(ana, margarita)>>, (<<ana, margarita>> :> 4),
    <<A("erase", ana, Null), A("prepare", ana, margarita), A("list", ana, Null)>>),
  \* one request after the other
  S(TRUE, TRUE, Nothing, <<Star(ana, margarita)>>, Nothing,
    <<A("prepare", ana, margarita), A("prepare", ben, margarita), A("remove", ana, 1), A("prepare", ben, margarita)>>),
  S(TRUE, TRUE, Nothing, Nothing, Nothing,
    <<A("prepare", ana, margarita), A("favorite", ben, 1), A("update", ana, 1), A("prepare", ben, margarita), A("erase", ana, Null)>>),
  \* pictures: uploads, an import's download, verdicts, and the nightly job
  S(FALSE, FALSE, <<Shows(Own(ana, TRUE, Null))>>, Nothing, Nothing,
    <<Picture(A("update", ana, 1)), A("rate", ben, 1), A("update", ana, 1)>>),
  S(FALSE, FALSE, Nothing, Nothing, Nothing,
    <<Picture(A("prepare", ana, margarita)), Picture(A("update", ana, 1)), A("remove", ana, 1)>>),
  S(FALSE, FALSE, <<Shows(Own(ana, FALSE, Null))>>, Nothing, Nothing,
    <<Picture(A("update", ana, 1)), A("erase", ben, Null), A("resolve", ben, 1)>>),
  S(TRUE, FALSE, <<Shows(Own(ana, TRUE, Null))>>, <<Star(ben, 1)>>, Nothing,
    <<Private(Picture(A("create", ana, Null))), Picture(A("update", ana, 1)), A("erase", ana, Null)>>),
  \* the bartender: the quota, the history, saving twice and while it goes
  Bar(FALSE, << >>, <<A("generate", ana, Null), A("generate", ana, Null)>>),
  Bar(FALSE, <<Kept(ana, Sour)>>, <<A("regenerate", ana, 1), A("discard", ana, 1), A("save", ana, 1)>>),
  Bar(FALSE, <<Kept(ana, Sour), Kept(ben, Sour)>>, <<A("save", ana, 1), A("save", ana, 1), A("save", ben, 2), A("erase", ana, Null)>>),
  Bar(TRUE, <<Kept(ana, Sour)>>, <<A("save", ana, 1), Of2(A("generate", ana, Null), <<bitters, gin>>), A("remove", ana, 1)>>),
  Bar(TRUE, << >>, <<Of2(A("generate", ana, Null), <<gin, bleach>>), Of2(A("generate", ben, Null), <<lime>>), A("erase", ben, Null)>>) }
=============================================================================
