SPECIFICATION Spec
CONSTANTS
  None = None
  Traits <- Grouped
  Uuids <- TwoUuids
  Lengths <- ShortLengths
  OptionLevels <- NoOverride
  Constructors <- All
  MaxPayload = 65535
INVARIANTS ProvidersJoinTheirGroup
CHECK_DEADLOCK FALSE
