SPECIFICATION Spec
CONSTANTS
  Colors <- ColorsInstance
  Properties = {0, 2047, 4095}
  MaxNodes = {255, 1023, 2047}
  Requests = {0, 1, 2, 7, 12}
  BuiltSets <- BuiltInstance
  OperatorCodes = {140, 94, 92, 143, 147, 7}
  RamSizes = {3, 6, 8}
INVARIANTS
  InPanelRange
  TouchAnswersHold
  OneIdentity
PROPERTIES
  NeverDarker
