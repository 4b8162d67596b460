SPECIFICATION FairSpec
CONSTANTS
  c1 = c1
  c2 = c2
  p1 = p1
  p2 = p2
  Clients = {c1, c2}
  Procs = {p1, p2}
  ClientOf <- OneEach
  Kinds = {"sync", "session"}
  ModeOf <- Bidirectional
  PolicyOf <- ManualAndLocal
  Orders = {"local", "remote", "unknown"}
  Faults = {"offline"}
  MaxVersion = 2
  None = None
PROPERTIES Settles
