CONSTANTS
  User <- Users
  Currency <- TwoCurrencies
  Id <- Ids
  Job <- Jobs
  Tx = {t1, t2}
  NoTx = NoTx
SPECIFICATION FairSpec
INVARIANTS TypeOK LedgerExplainsBalance NeverOverdrawn PostedOnce AllOrNothing NoVersionConflict
PROPERTIES ImplementsWallet EveryTransactionEnds
