CONSTANTS
  User <- Users
  Intent <- Intents
  Call <- Calls
  Sweeps <- Packages
  Event <- Events
  Handler = {h1, h2}
  NoEvent = NoEvent
SPECIFICATION Spec
INVARIANT FirstPurchaseBonusOnce
CHECK_DEADLOCK FALSE
