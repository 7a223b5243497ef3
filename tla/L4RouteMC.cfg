CONSTANTS
  tcp = tcp
  udp = udp
  a = a
  b = b
  Kinds = {tcp}
  Routes = {1, 2}
  Together <- Everyone
  KindOf <- OneKind
  Listeners = {a, b}
  Permits <- OlderRefused
  Specs <- AtB
  MaxEdits = 1
  MaxCrashes = 1
  Nil = Nil
SPECIFICATION Spec
CHECK_DEADLOCK FALSE
INVARIANT ListenersServed
PROPERTY ReleasedMeansEmptied
