\* Interval, deadline and timeout in the proportion of the code, 5 : 5 : 15.
SPECIFICATION Spec
CONSTANTS
  Server <- MC_TwoServers
  Interval = 1
  Deadline = 1
  Timeout = 3
  MaxQuiet = 6
  MaxFails = 2
  MaxPicks = 1
  MaxStops = 1
  MaxCrashes = 1
INVARIANTS TypeOK QuietBound SteadyAlive StoppedNoticed RoundRobin
