SPECIFICATION Spec
CONSTANTS
  Price = {1, 2, 3}
  Count = 5
  Depth = 2
  Backstep = 1
  Deviation = 50
PROPERTIES
  PivotsStay
  StructureWaits
