SPECIFICATION Spec
CONSTANTS
  Backends = {"postgresql", "sqlite"}
INVARIANTS
  QueriesAreReadOnly
