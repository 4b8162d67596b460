SPECIFICATION Spec
CONSTANTS
  t1 = t1
  t2 = t2
  Titles = {t1, t2}
  SystemOf <- MCSystemOf
  TemplateSystems = {"s1"}
  Exes = {e1, e2}
  Launchers = 2
  MaxRuns = 2
  MaxEdits = 1
INVARIANT TypeOK
PROPERTIES AppliedRunAgrees UserKept SteamReopens
CHECK_DEADLOCK FALSE
