SPECIFICATION FairSpec
CONSTANTS
  Lights = {0, 5, 400, 9000, 100000}
  Estimates = {0, 60}
  Brightnesses = {0, 1}
  Screens <- ScreenKinds
  Poly <- PolyOf
  Gamma <- GammaOf
  White = 150000
  bias = 0
  sensor_inverse_gain <- Gains
  sensor_gaincal_points <- Points
  MinInterval = 2
  MaxAge = 3
  AgeCap = 5
INVARIANTS
  FreshReport
  SteadyReadingCached
PROPERTIES
  CapturesSpaced
  NotStarved
