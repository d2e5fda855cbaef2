SPECIFICATION PartsSpec
CONSTANTS
  SWITCH_CONFIGS <- MCConfigs
  Rate = "rate"
  Supported = {"dc", "otg", "rate"}
  Committed = {"dc"}
  Default <- MCDefault
  Fragments = {f1, f2}
INVARIANTS
  RestoredIsChosen
  SwitchesShowNodes
  PlayingIsCleaning
  QuietWhenAway
PROPERTIES
  EveryPlayEnds
