SPECIFICATION FairSpec
CONSTANTS
  c1 = c1
  c2 = c2
  s1 = s1
  s2 = s2
  Client = {c1, c2}
  Shell = {s1, s2}
  None = None
  InCap = 3
  OutCap = 1
  MaxWindows = 2
  MaxChunks = 1
  Serials = 2
PROPERTIES Quits
CHECK_DEADLOCK FALSE
