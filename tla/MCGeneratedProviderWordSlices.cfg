SPECIFICATION Spec
CONSTANTS
  None = None
  Traits <- WordSlices
  Uuids <- TwoUuids
  Lengths <- ShortLengths
  OptionLevels <- NoOverride
  Constructors <- All
  MaxPayload = 65535
INVARIANTS RoundTrip
CHECK_DEADLOCK FALSE
