CONSTANTS
  http = http
  grpc = grpc
  gw = gw
  a = a
  b = b
  s1 = s1
  s2 = s2
  Kinds = {http, grpc}
  Routes = {1, 2}
  KindOf <- KindEach
  Guests = {1}
  Parents = {gw}
  ListenersOf <- OneListener
  Services = {s1}
  FirstTo <- AllToFirst
  MaxEdits = 0
  MaxCrashes = 1
  Nil = Nil
SPECIFICATION Spec
CHECK_DEADLOCK FALSE
INVARIANT RoutesServed
