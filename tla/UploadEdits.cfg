SPECIFICATION FairSpec
CONSTANTS
  s1 = s1
  s2 = s2
  Saves = {s1, s2}
  Tree = {s1, s2}
  RootOf <- MCRootOf
  Contents = {a}
  Reqs = {r1, r2, r3}
  KeepLimit = 1
  AllowEdits = TRUE
  MaxEdits = 1
  MaxCrashes = 0
  None = None
PROPERTIES RootsStayConsistent Answered
