CONSTANTS
  Calls = {c1, c2, c3}
  NoLimiter = NoLimiter
  MaxQueueLength = 1
  MinLimit = 1
  InitialLimit = 1
  MaxLimit = 2
SPECIFICATION FairSpec
INVARIANTS
  TokensExact
  NoIdleToken
  SizesFollow
PROPERTY LimitReturns
