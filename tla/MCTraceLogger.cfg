SPECIFICATION Spec
CONSTANTS
  t1 = t1
  t2 = t2
  None = None
  Empty = Empty
  Threads <- MCThreads
  Records <- MCRecords
  SessionLevels <- MCLevels
  MaxAnnounced = 2
SYMMETRY Symmetry
INVARIANTS TypeOK RecordsFollowTheSettings EnabledForetells
