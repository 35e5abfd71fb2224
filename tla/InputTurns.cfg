SPECIFICATION Spec
CONSTANTS
  i1 = i1
  i2 = i2
  i3 = i3
  Inputs = {i1, i2}
  PreOutput = {i1, i2}
  During = {i1}
  Period = 4
  Duration = 1
  LockTimeout = 3
  MaxLate = 5
  Requests = {"force", "stop"}
  Overlap = FALSE
PROPERTIES OneSampleEach MeasuredAsTold MeasuresAgain
