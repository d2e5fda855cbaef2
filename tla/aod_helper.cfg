SPECIFICATION Spec
CONSTANTS
  Timers = {1, 2, 3}
  MaxBroadcasts = 3
INVARIANTS
  OneTimer
  NothingLeftRunning
  FollowsAlwaysOn
