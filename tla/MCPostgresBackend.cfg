CONSTANTS
  Polls = {p1}
  Users = {7, 2147483647}
  Objects = {o1}
  Voters = {v1, v2}
  Managers = {m1}
  NoVote = NoVote
  MayFail = {"start", "vote", "stop", "clear", "clearAll"}
  MayCancel = FALSE
SPECIFICATION FairSpec
PROPERTIES
  ImplementsBackend
  VoteReturns
  ManagerReturns
