SPECIFICATION FairSpec
CONSTANTS
  Polls = {p1}
  Users = {u1, u2}
  SingleInstance = FALSE
INVARIANTS
  TypeOK
  ReceiverInSync
PROPERTIES
  
  ClearedPollsEnd
