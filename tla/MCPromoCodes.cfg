CONSTANTS
  Call <- Calls
  Key <- Keys
  KeyOf <- KeyOfCall
  None = None
  Code <- Codes
  User <- Users
  UserOf <- UserOfCall
  Asks <- AsksOf
  Worth <- WorthOf
  Dated <- DatedCodes
  Limit <- LimitOf
  Pool = 2
SPECIFICATION FairSpec
INVARIANTS TypeOK LimitHolds CreditedOnce
PROPERTIES EveryRedemptionEnds
CHECK_DEADLOCK FALSE
