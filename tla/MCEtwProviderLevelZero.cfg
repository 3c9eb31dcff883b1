SPECIFICATION Spec
CONSTANTS
  t1 = t1
  t2 = t2
  Threads <- OneThread
  MaxLevel = 2
  EventLevels <- MCLevels
  DisableLevels <- ZeroOnly
  MaxNotices = 2
  Serial = TRUE
PROPERTIES AnswersMatchSession
CHECK_DEADLOCK FALSE
