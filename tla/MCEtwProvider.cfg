SPECIFICATION FairSpec
CONSTANTS
  t1 = t1
  t2 = t2
  Threads <- MCThreads
  MaxLevel = 2
  EventLevels <- AboveZero
  DisableLevels <- ZeroOnly
  MaxNotices = 3
  Serial = TRUE
INVARIANTS TypeOK NoUseAfterFree LevelAgreement
PROPERTIES AnswersMatchSession FollowsTheFeed DropCompletes CacheCatchesUp
CHECK_DEADLOCK FALSE
