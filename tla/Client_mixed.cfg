SPECIFICATION FairListSpec
CONSTANTS
  c1 = c1  c2 = c2  c3 = c3  p1 = p1  p2 = p2  o1 = o1  o2 = o2  d1 = d1  d2 = d2
  NoOrder = NoOrder
  Calls = {c1, c2, c3}
  Polls = {p1, p2}
  Orders = {o1, o2}
  Drinks = {d1, d2}
  PageSize = 1
  Scenes <- MCScenes
  MaxExpired = 2
INVARIANT KeptAlive
INVARIANT ListShowsRows
PROPERTY AllAnswered
PROPERTY OrderFollowed
CHECK_DEADLOCK FALSE
