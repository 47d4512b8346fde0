CONSTANTS
  Nodes = {p, s1, s2}
  Primary = p
  Values = {v1, v2}
  Errors = {e1}
  NoVote = NoVote
  NoError = NoError
  MaxVotes = 2
SPECIFICATION FairSpec
INVARIANTS
  CommittedWithPrimary
  AnswersStand
  NothingChanged
  UpdatedAgrees
  VotingInv
PROPERTIES
  DecisionsStand
  VotesReturnUnlessBehind
CHECK_DEADLOCK FALSE
