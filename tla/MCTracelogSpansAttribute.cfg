SPECIFICATION Spec
CONSTANTS
  t1 = t1
  t2 = t2
  s1 = s1
  s2 = s2
  a1 = a1
  a2 = a2
  f1 = f1
  f2 = f2
  v1 = v1
  v2 = v2
  NullId = NullId
  NoSpan = NoSpan
  None = None
  Threads <- OneThread
  Spans <- OneSpan
  Ids <- TwoIds
  Calls <- NoCalls
  Budgets <- OneSeen
  HiddenParents = FALSE
  LateLayers = FALSE
PROPERTIES PresentAttributeIsUsed
