CONSTANTS
  httpRoute = httpRoute
  grpcRoute = grpcRoute
  http = http
  grpc = grpc
  Routes = {httpRoute, grpcRoute}
  RouteWorkers = {http, grpc}
  Reconciles <- MCReconciles
  Gateway = Gateway
  Indexes = {1}
  Backends = {b1, b2}
  DefaultBackend = b1
  MaxLate = 1
  Nil = Nil
SPECIFICATION Spec
SYMMETRY Exchange
INVARIANTS TypeOK CommittedRulesStay RemovedRulesStayGone DefaultRuleServed
PROPERTY WritesAreAtomic
