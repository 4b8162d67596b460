SPECIFICATION Spec
CONSTANTS
  s1 = s1
  s2 = s2
  Saves = {s1}
  Tree = {}
  RootOf <- MCRootOf
  Contents = {a, b}
  Reqs = {r1, r2, r3}
  KeepLimit = 1
  AllowEdits = FALSE
  MaxEdits = 0
  MaxCrashes = 1
  None = None
INVARIANTS TypeOK WritersAreOrdered
PROPERTY ImplementsStore
