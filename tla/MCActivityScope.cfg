SPECIFICATION Spec
CONSTANTS
  t1 = t1
  t2 = t2
  a1 = a1
  a2 = a2
  a3 = a3
  Threads <- MCThreads
  Ids <- MCIds
  NoActivity = NoActivity
  None = None
  MaxDepth = 3
SYMMETRY Symmetry
INVARIANTS TypeOK ActivityBelongsToOneThread
PROPERTIES IsDynamicallyScoped
