SPECIFICATION Spec
CONSTANTS
  t1 = t1
  t2 = t2
  n1 = n1
  n2 = n2
  None = None
  Threads <- TwoThreads
  TelemetryBits <- Telemetry
  OtherBits <- Ordinary
  TraceKeywords <- Keywords
  GlobalLists <- PlainGlobals
  EventFields <- MCFields
  SpanFields <- Attributes
  DeferredFields <- Recorded
  SpanNames <- OneName
  Targets <- MCTargets
  NameSize = 8
  MaxEvent = 65535
  EventLevels <- MCLevels
  SessionLevels <- OffOrAll
  LogFeature = TRUE
SYMMETRY Symmetry
INVARIANTS TypeOK RoundTrip KeywordMarksTrace OptOutHolds
