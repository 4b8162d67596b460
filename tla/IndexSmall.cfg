SPECIFICATION Spec
CONSTANTS
  Roots = {roms, saves}
  Poller = poller
  Callers = {c1}
  Calls = {"check", "cached", "forced"}
  Stable = 1
  Refresh = 1
  MaxVersion = 1
  MaxDelay = 1
  None = None
INVARIANTS TypeOK ReadersSeeFloor SignatureConservative
PROPERTIES SnapshotsMoveForward
