CONSTANTS
  Call <- Calls
  Key <- Keys
  KeyOf <- KeyOfCall
  None = None
  LastDay = 3
  BaseAward = 30
  Increment = 10
  MaxAward = 40
SPECIFICATION Spec
INVARIANTS TypeOK HandlerOncePerKey ReplayIsTheResult NoUnearnedStreak ClaimsAreDaysPaid
CHECK_DEADLOCK FALSE
