SPECIFICATION Spec
CONSTANTS
  Polls = {p1}
  Users = {u1, u2}
  SingleInstance = FALSE
INVARIANT
  NeverBroken
