CONSTANTS
  port1 = port1
  port2 = port2
  tls = tls
  http = http
  Names = {1, 2}
  Managed = {port1, port2}
  Preserved = {tls}
  Unsupported = {http}
  Specs <- MCSpecs
  Foreign <- NoneForeign
  ListenerSetEnabled = FALSE
  MaxGeneration = 2
  MaxCrashes = 0
  Nil = Nil
SPECIFICATION Spec
CHECK_DEADLOCK FALSE
INVARIANT ProgrammedIsServed
