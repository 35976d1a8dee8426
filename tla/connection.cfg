SPECIFICATION ConnectionSpec
CONSTANTS
  Script <- VisitTwo
  MaxReports = 7
INVARIANTS EvaluatesRequestedPage EventsAreTakenOnce
PROPERTIES ScriptEnds
CHECK_DEADLOCK FALSE
