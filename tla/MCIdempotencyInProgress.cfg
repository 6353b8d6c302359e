CONSTANTS
  Call <- Calls
  Key <- Keys
  KeyOf <- KeyOfCall
  None = None
  LastDay = 3
  BaseAward = 30
  Increment = 10
  MaxAward = 40
SPECIFICATION Spec
PROPERTY InProgressIsRunning
CHECK_DEADLOCK FALSE
