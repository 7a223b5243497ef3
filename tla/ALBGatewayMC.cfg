CONSTANTS
  Https = {1}
  Grpc = {1}
  Tls = {2}
  Specs <- AnyListeners
  MaxGeneration = 3
  MaxVersion = 2
  MaxChanges = 2
  Nil = Nil
SPECIFICATION Spec
CHECK_DEADLOCK FALSE
INVARIANTS TypeOK SettledIsServed GrpcStays
PROPERTIES RecordKeepsWhatIsThere ReleasedMeansDeleted
