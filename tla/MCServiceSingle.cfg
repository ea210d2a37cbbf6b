CONSTANTS
  Polls = {p1}
  Users = {u1}
  Voters = {v1, v2}
  Managers = {m1, m2}
  Instances = {i1}
  SingleInstance = TRUE
  MayFail = {"start", "vote", "stop", "clear", "clearAll", "load"}
  MayRestart = TRUE
  MayMoveTo = {"fast", "long"}
SPECIFICATION HSpec
SYMMETRY Symmetry
INVARIANTS
  TypeOK
  SavedVotesShown
