CONSTANTS
  Market <- Markets
  User <- Users
  Request <- Requests
  Slip <- Slips
  Batch <- Batches
  AdminCall <- AdminCalls
  InitialCash <- Cash
  Worker = {w1, w2}
  NoRequest = NoRequest
  NoMarket = NoMarket
  Ticket <- Tickets
  TicketOf <- TicketData
  MinStakeCents = 5000
  MaxSidePayoutCents = 1000000
SPECIFICATION BettingSpec
INVARIANTS TypeOK MoneyMatchesEntries PostsMatchStatus OneEntryPerKey StatusFollowsPicks LimitsHoldWhenChecked
PROPERTIES SettledIsFinal SettlementEnds
CHECK_DEADLOCK FALSE
