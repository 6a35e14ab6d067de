SPECIFICATION Spec
CONSTANTS
  Asset = {a1, a2}
  NoAsset = NoAsset
  Mode = "demo_auto"
  AllowLive = FALSE
  Patched = {"asset", "profile", "auto", "amount"}
  MaxCandle = 1
  MaxReadings = 3
SYMMETRY Symmetric
INVARIANTS
  OrdersAreConfirmed
  OneOrderAfterAutoOff
  OrdersWithinLimit
PROPERTY
  SignatureOrderedOnce
