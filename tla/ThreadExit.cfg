CONSTANTS
  MaxDepth = 3
  Threads = {1, 2, 3}
  Overf = 8
  Statics = {r1, r2, p, c1, c2, q}
  Refs = {r1, r2, c1, c2}
  RefDrops = {}
  CxaStatics = {c1, c2, q}
  NoStatic = NoStatic
  Kind <- MCKind
  Tolerance <- MCTolerance
  Calls <- MCCalls
  Callers = {self, peer}
  Self = self
  Keys = {k1, k2, k3}
  MAX = MAX
  Iterations = 2
  MaxForeign = 1
  Backends = {"windows", "cxa", "pthread"}
SPECIFICATION ThreadSpec
CONSTRAINT Shallow
SYMMETRY Symmetry
INVARIANTS ThreadTypeOK AccessSound CellExact ThreadNoneLost OneKey
