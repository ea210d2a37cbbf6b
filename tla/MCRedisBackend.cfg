CONSTANTS
  Polls = {p1, p2}
  Users = {u1, u2}
  Objects = {o1, o2}
  Voters = {v1, v2}
  Managers = {m1}
  NoVote = NoVote
  MayFail = {"vote", "stop", "clear", "clearAll"}
SPECIFICATION Spec
SYMMETRY Symmetry
INVARIANTS
  TypeOK
  NoOrphanedVotes
PROPERTIES
  ImplementsBackend
  VotesOnlyCleared
  StoppedIsFinal
