CONSTANTS
  http = http
  grpc = grpc
  gw = gw
  a = a
  b = b
  s1 = s1
  s2 = s2
  Kinds = {http, grpc}
  Routes = {1}
  KindOf <- KindEach
  Guests = {1}
  Parents = {gw}
  ListenersOf <- TwoListeners
  Services = {s1, s2}
  FirstTo <- AllToFirst
  MaxEdits = 2
  MaxCrashes = 0
  Nil = Nil
SPECIFICATION FairSpec
CHECK_DEADLOCK FALSE
INVARIANTS TypeOK RoutesServed NoForeignRules
PROPERTIES ReleasedMeansUnruled DeletionsEnd
