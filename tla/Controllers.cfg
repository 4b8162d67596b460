SPECIFICATION Spec
CONSTANTS
  f1 = f1
  f2 = f2
  Order <- MCOrder
  UserTexts = {1}
  Versions = 2
  KeepLimit = 1
  MaxEdits = 2
INVARIANTS TypeOK NoOrphans
PROPERTIES UserTextKept RunsSettle UpgradeArrives
CHECK_DEADLOCK FALSE
