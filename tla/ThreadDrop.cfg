CONSTANTS
  MaxDepth = 3
  Threads = {1, 2, 3}
  Overf = 8
  Statics = {d, e}
  Refs = {}
  RefDrops = {d, e}
  CxaStatics = {e}
  NoStatic = NoStatic
  Kind <- MCKind
  Tolerance <- MCTolerance
  Calls <- MCCalls
  Callers = {self, peer}
  Self = self
  Keys = {k1, k2, k3}
  MAX = MAX
  Iterations = 2
  MaxForeign = 1
  Backends = {"windows", "cxa", "pthread"}
SPECIFICATION ThreadSpec
INVARIANTS DropExclusive
