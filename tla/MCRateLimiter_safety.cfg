SPECIFICATION Spec
CONSTANTS
  Client = {c1, c2}
  Limit = 2
  Window = 2
  MaxTime = 5
  MaxAdmitted = 4
SYMMETRY Symmetric
INVARIANTS
  TypeOK
  WindowIsLimited
PROPERTY
  ImplementsWindow
