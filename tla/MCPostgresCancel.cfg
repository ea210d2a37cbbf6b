CONSTANTS
  Polls = {p1}
  Users = {7}
  Objects = {o1}
  Voters = {v1}
  Managers = {m1}
  NoVote = NoVote
  MayFail = {}
  MayCancel = TRUE
SPECIFICATION Spec
PROPERTIES
  OkMeansDone
