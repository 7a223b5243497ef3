CONSTANTS
  port1 = port1
  port2 = port2
  tls = tls
  http = http
  Names = {1, 2}
  Managed = {port1, port2}
  Preserved = {tls}
  Unsupported = {http}
  Specs <- MCSpecs
  Foreign <- SecondForeign
  ListenerSetEnabled = TRUE
  MaxGeneration = 2
  MaxCrashes = 1
  Nil = Nil
SPECIFICATION FairSpec
CHECK_DEADLOCK FALSE
INVARIANTS TypeOK SettledIsServed WritesAreProtected
PROPERTIES ReleasedMeansDeleted RecordKeepsWhatIsThere ForeignKept DeletionEnds
