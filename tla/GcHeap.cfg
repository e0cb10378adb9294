SPECIFICATION Spec
CONSTANTS
  Obj = {o1, o2, o3}
  Roots = {r1, r2}
  Fields = {car}
  NULL = NULL
  GONE = GONE
SYMMETRY Symmetry
INVARIANTS WeakListed NoDangling Exact GenerationsSeparate ImmutableClosed
PROPERTIES ImplementsHeap
