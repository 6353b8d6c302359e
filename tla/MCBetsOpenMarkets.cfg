CONSTANTS
  Market <- Markets
  User <- Users
  Request <- Requests
  Slip <- Slips
  Batch <- Batches
  AdminCall <- AdminCalls
  InitialCash <- Cash
  Worker = {w1, w2}
  NoRequest = NoRequest
  NoMarket = NoMarket
SPECIFICATION FairSpec
PROPERTY EntriesOnlyOnOpenMarkets
CHECK_DEADLOCK FALSE
