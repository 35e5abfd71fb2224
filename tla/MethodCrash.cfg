SPECIFICATION RunSpec
CONSTANTS
  Length = 4
  RepeatFor = 12
  Intervals <- ThreeAndSeven
  Settings <- Resumable
  Requests = {"deactivate", "method"}
  Faults = {"crash", "restart", "blind"}
  MaxStops = 3
  AnyMoment = FALSE
INVARIANTS RunsOn RepeatsAsTold
PROPERTIES TurnsOff
