SPECIFICATION Spec
CONSTANTS
  t1 = t1
  t2 = t2
  n1 = n1
  n2 = n2
  None = None
  Threads <- OneThread
  TelemetryBits <- Telemetry
  OtherBits <- Ordinary
  TraceKeywords <- Keywords
  GlobalLists <- PlainGlobals
  EventFields <- Booleans
  SpanFields <- Booleans
  DeferredFields <- Booleans
  SpanNames <- OneName
  Targets <- OneTarget
  NameSize = 8
  MaxEvent = 65535
  EventLevels <- MCLevels
  SessionLevels <- OffOrAll
  LogFeature = TRUE
INVARIANTS RoundTrip
