SPECIFICATION Spec
CONSTANTS
  Ctx = {"c1", "c2"}
  Images <- SomeImages
  Module = {"k", "u"}
  Name = {"f", "g", "h"}
  Address <- Addresses
INVARIANT TypeOK
INVARIANT SlotImportsFunction
INVARIANT ImportsAreFound
INVARIANT SameImportSameSlot
CHECK_DEADLOCK FALSE
