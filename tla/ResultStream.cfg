SPECIFICATION Spec
CONSTANTS
  MaxRows = 3
  MaxSent = 6
  Faults = TRUE
INVARIANTS TypeOK RowsInOrder NoDataMeansComplete NoRowAfterError
PROPERTIES CancelStopsFetch ImplementsRowStream
