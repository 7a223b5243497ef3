CONSTANTS
  tcp = tcp
  udp = udp
  a = a
  b = b
  Kinds = {tcp, udp}
  Routes = {1, 2, 3}
  Together <- HeirOrOtherKind
  KindOf <- LastIsUDP
  Listeners = {a}
  Permits <- AllPermitted
  Specs <- AnySpecs
  MaxEdits = 1
  MaxCrashes = 0
  Nil = Nil
SPECIFICATION FairSpec
CHECK_DEADLOCK FALSE
INVARIANTS TypeOK ListenersServed
PROPERTY DeletionsEnd
