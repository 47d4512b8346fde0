CONSTANTS
  Nodes = {p, s1, s2}
  Primary = p
  Values = {v1}
  Errors = {e1}
  NoVote = NoVote
  NoError = NoError
  MaxVotes = 2
SPECIFICATION FairSpec
PROPERTY VotesReturn
CHECK_DEADLOCK FALSE
