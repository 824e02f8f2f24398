\* Four messages over at most eight connections.
SPECIFICATION Spec
CONSTANT MaxMessages = 4
CHECK_DEADLOCK FALSE
INVARIANTS
  TypeOK
  SentOnceInOrder
  NoConnectionLeaks
