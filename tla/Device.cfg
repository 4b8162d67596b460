SPECIFICATION DeviceSpec
CONSTANTS
  Contents = {x, y, z}
  None = None
  KeepLimit = 2
  Burst = 5
  MaxSeconds = 3
  MaxBackups = 8
  Names = {"srm", "sav"}
  Layouts = {"plain", "byCore", "notByCore"}
  MaxFiles = 3
  Devices = {"d1", "d2"}
  Titles = {"a", "b"}
  Rules = {"gc", "wii", "n3ds"}
  Profiles = {"p", "q"}
  MaxEvents = 4
  Combinations <- MCCombinations
  MaxChanges = 3
  Hosts = {"nt", "linux", "darwin"}
  Needs <- MCNeeds
  MaxUser = 3
  Emulators = {"pcsx2", "dolphin", "azahar", "retroarch"}
  MaxLines = 3
  MaxEdits = 1
INVARIANTS TypeOK NothingIsGuessed KeepsNewest DiscoveryAgrees
PROPERTIES TreeTravels PathsAgree InstallIsSafe
CHECK_DEADLOCK FALSE
