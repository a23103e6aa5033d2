SPECIFICATION Spec
CONSTANTS
  Trees = {"t1", "t2"}
  Dirs = {"d1", "d2"}
  Worlds <- MCWorlds
  Touched = {"egress.key", "gateway-client-ca.crt"}
  MaxScalarBytes = 2
  MaxAssetBytes = 3
  MaxChanges = 2
  MaxFaults = 1
INVARIANTS OneDirectory OutcomeIsRight
PROPERTIES ReadAsInspected KeepsPromise
CHECK_DEADLOCK FALSE
