CONSTANTS
  Nodes = {p, s1, s2, s3}
  Primary = p
  Values = {v1, v2}
  Errors = {e1}
  NoVote = NoVote
  NoError = NoError
  MaxVotes = 2
SPECIFICATION Spec
SYMMETRY Symmetry
INVARIANTS
  CommittedWithPrimary
  AnswersStand
  NothingChanged
  UpdatedAgrees
  VotingInv
PROPERTY DecisionsStand
CHECK_DEADLOCK FALSE
