SPECIFICATION FairSpec
CONSTANTS
  MaxEvents = 2
INVARIANTS
  PickupsInOrder
PROPERTIES
  PressSeen
  ActivateReturns
