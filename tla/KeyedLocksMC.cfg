CONSTANTS
  Workers = {w1, w2, w3}
  Keys = {k1, k2}
  Locks = {o1, o2, o3}
  Nil = Nil
SPECIFICATION FairSpec
INVARIANTS TypeOK MutualExclusion EntriesAreInUse CreatedAtMostOnce
PROPERTIES ImplementsMutex EveryCallerRuns
