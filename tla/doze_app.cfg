SPECIFICATION Spec
CONSTANTS
  Instances = {s1, s2}
  MinPulse = 1
  MaxBacklog = 2
SYMMETRY InstanceSymmetry
INVARIANTS
  ServiceMatchesSettings
  NoForgottenListener
  DeafOnlyInTheDark
PROPERTIES
  GesturesSpaced
