SPECIFICATION Spec
CONSTANTS
  None = None
  Traits <- AllTraits
  Uuids <- TwoUuids
  Lengths <- EdgeLengths
  OptionLevels <- Overrides
  Constructors <- All
  MaxPayload = 65535
INVARIANTS TypeOK EventIdsAreUnique RoundTrip DescriptorAsDeclared IdentityAsDeclared
CHECK_DEADLOCK FALSE
