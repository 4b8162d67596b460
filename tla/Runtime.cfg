SPECIFICATION Spec
CONSTANTS
  Devices = {d1, d2}
  MaxPresses = 3
INVARIANTS TypeOK UploadAfterExit
PROPERTIES ComboOnly ComboEnds
CHECK_DEADLOCK FALSE
