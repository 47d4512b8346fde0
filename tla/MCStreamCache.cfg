CONSTANTS
  Clients = {c1, c2}
  Keys = {k1}
  NoEntry = NoEntry
  NoKey = NoKey
  Writer = Writer
  Chunks = 2
  Backpressure = TRUE
SPECIFICATION FairSpec
INVARIANTS
  ServedComplete
  ReadersKeepPipe
  PrunedBeforeTold
PROPERTY FetchReturns
\* All clients have been served.
CHECK_DEADLOCK FALSE
