\* Recipes, favorites, ratings and an erasure over one remote cocktail, and the
\* AI bartender.
SPECIFICATION BarSpec
CONSTANTS
  Null = Null
  ana = ana
  ben = ben
  margarita = margarita
  Users = {ana, ben}
  Externals = {margarita}
  MaxCocktails = 3
  Scenes <- AllScenes
  gin = gin  lime = lime  bitters = bitters  moonshine = moonshine  bleach = bleach
  Words = {gin, lime, bitters, moonshine, bleach}
  Replies <- AllReplies
  Catalogued = {gin, lime}
  Remote = {}
  Banned = {bleach}
  HighProof = {moonshine}
  NonFood = {bleach}
  Limit = 1
  MaxIngredients = 2
  MaxAttempts = 3
  MaxTurns = 2
  MaxDays = 2
INVARIANTS FavoritesKept RatingFollows ErasedLeavesNothing PicturesShown
           QuotaHolds BestAnswer
