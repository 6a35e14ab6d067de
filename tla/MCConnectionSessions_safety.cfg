SPECIFICATION Spec
CONSTANTS
  Replica = {r1, r2}
  Ssid = {s1, s2}
  Id = {i1, i2, i3}
  Call = {c1, c2}
  DefaultMode = DefaultMode
  None = None
SYMMETRY Symmetric
VIEW View
INVARIANT ContextsArePersisted
PROPERTY ModeReadIsOwn
