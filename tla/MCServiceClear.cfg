CONSTANTS
  Polls = {p1}
  Users = {u1}
  Voters = {v1}
  Managers = {m1}
  Instances = {i1}
  SingleInstance = TRUE
  MayFail = {}
  MayRestart = FALSE
  MayMoveTo = {}
SPECIFICATION Spec
INVARIANTS
  ClearForgets
