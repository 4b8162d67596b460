SPECIFICATION FairSpec
CONSTANTS
  Roots = {saves}
  Poller = poller
  Callers = {c1}
  Calls = {"check", "forced"}
  Stable = 2
  Refresh = 0
  MaxVersion = 2
  MaxDelay = 1
  None = None
PROPERTIES PollerConverges
