SPECIFICATION Spec
CONSTANTS
  k1 = k1
  k2 = k2
  k3 = k3
  k4 = k4
  a = a
  b = b
  c = c
  Null = Null
  Keys <- AllKeys
  PageKeys <- PageOne
  Editors = {1, 2}
  Orders = 1
  Readers = {1, 2, 3}
  PageTime = 3
  Tickets = {k1, k2, k3, k4}
  Owner <- Owners
  Conns = {1, 2, 3}
  Calls = {1, 2, 3, 4}
  TicketTime = 1
  SessionTime = 2
  Window = 1
  Rate = 2
  MaxKeys = 2
  Focuses <- AllFocuses
CHECK_DEADLOCK FALSE
INVARIANTS
  AnswersBounded
  RateBounded
  OpenIsReachable
PROPERTIES
  TicketSpent
