CONSTANTS
  Polls = {p1}
  Users = {7, 2147483647}
  Objects = {o1}
  Voters = {v1, v2}
  Managers = {m1, m2}
  NoVote = NoVote
  MayFail = {"clearAll"}
  MayCancel = TRUE
SPECIFICATION Spec
SYMMETRY Symmetry
INVARIANTS
  TypeOK
  RowsConsistent
  SnapshotIsCurrent
PROPERTIES
  StoppedIsFinal
