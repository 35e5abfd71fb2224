SPECIFICATION Spec
CONSTANTS
  p1 = p1
  p2 = p2
  Pages = {p1}
  Requests = {"hold", "pause", "resume", "modify", "setpoint", "deactivate"}
  Measurements = {0, 2, 5}
  Setpoints = {2, 3}
  Directions = {"both"}
  InitialSetpoint = 2
  InitialDirection = "both"
  Band = 1
  Kp = 1
  Ki = 1
  Kd = 1
  integrator_min <- MinusTwo
  integrator_max = 2
  Kind <- Pwm
  MinAmount = 0
  MaxAmount = 0
  AlwaysMin = FALSE
  StoreNegative = TRUE
  Period = 4
  Overlap = FALSE
INVARIANTS TypeOK  NeverOpposed EndsOff SetpointSaved
