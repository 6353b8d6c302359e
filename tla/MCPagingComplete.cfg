CONSTANTS
  deposit = deposit
  stake = stake
  payout = payout
  Tx <- Txs
  Posts <- TxPosts
  Filters = {"all", "top_ups"}
  Limits = {1, 2}
  Milli = 2
  LastInstant = 3
SPECIFICATION Spec
INVARIANT WalkIsComplete
