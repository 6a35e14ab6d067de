SPECIFICATION Spec
CONSTANTS
  MaxOrdersPerHour = 2
  LossLimits = {0, 2}
  Hour = 3
  Cooldown = {0, 2}
  MaxTime = 5
  MaxOrders = 3
INVARIANTS
  TypeOK
  HourlyLimitHolds
  CooldownHolds
