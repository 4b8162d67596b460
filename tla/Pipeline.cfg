SPECIFICATION Spec
CONSTANTS
  Firmware = {fw}
  Roms = {r1, r2}
  NeedsFirmware = {r1}
  SameSize = {r2}
  Attempts = 2
  Workers = 2
  MaxVersion = 2
  MaxFaults = 2
INVARIANTS TypeOK CompleteIsCurrent NoHalfFiles
PROPERTIES RecordedWasThere Converges
CHECK_DEADLOCK FALSE
