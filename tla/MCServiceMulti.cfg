CONSTANTS
  Polls = {p1}
  Users = {u1}
  Voters = {v1}
  Managers = {m1}
  Instances = {i1, i2}
  SingleInstance = FALSE
  MayFail = {"vote", "clear", "load"}
  MayRestart = TRUE
  MayMoveTo = {"long"}
SPECIFICATION OnePollSpec
PROPERTIES
  SavedVotesSpread
  ClearedVotesVanish
