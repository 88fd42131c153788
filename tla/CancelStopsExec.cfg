SPECIFICATION Spec
CONSTANTS
  MaxRows = 3
  MaxSent = 6
  Faults = TRUE
PROPERTY CancelStopsExec
