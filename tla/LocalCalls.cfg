SPECIFICATION MCSpec
CONSTANTS
  Executions <- MCExecutions
  Deliveries <- MCDeliveries
  Columns <- MCColumns
  Escapes <- MCEscapes
  Connections <- MCConnections
  World <- MCWorld
  SessionCatalog <- MCSessionCatalog
  Searches <- MCSearches
  PipeCapacity = 2
  PayloadSize = 5
  ResultSize = 4
INVARIANTS LiteralsStayWhole BoundValueReadsBack ZonedValuesKeepTheirInstant LossIsReported ValueFitsReportedType PathsAgree SizesFit ArgumentsSurvive AdvertisedFunctionsRun ClaimsAreHonoured SelectsWhatIsAsked AbortHiddenOnlyByARace OutcomeIsThePersons NobodyWaitsInACircle
PROPERTIES SetupReturns
