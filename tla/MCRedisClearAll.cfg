CONSTANTS
  Polls = {p1}
  Users = {u1}
  Objects = {o1}
  Voters = {v1}
  Managers = {m1, m2}
  NoVote = NoVote
  MayFail = {}
SPECIFICATION Spec
PROPERTIES
  ClearAllRemovesAll
