CONSTANTS
  Users = {1, 2}
  Meetings = {"m1", "m2"}
  Groups = {"g1", "g2"}
  Requester = 1
  Scenarios <- MCScenarios
SPECIFICATION Spec
INVARIANTS
  TypeOK
PROPERTIES
  SavedObject
  VerdictOfSomeState
  ChecksHeld
  PreloadCovers
  VotedAnswers
