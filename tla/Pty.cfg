SPECIFICATION Spec
CONSTANTS
  m1 = m1
  j1 = j1
  j2 = j2
  Terminal = {m1}
  Job = {j1, j2}
  None = None
  Ignoring = {}
  Size = 2
  Byte = {"char", "newline", "intr", "erase", "kill", "eof"}
  Inputs <- MCInputs
  MaxCount = 1
  Modes <- MCModes
  Default <- Cooked
INVARIANTS TypeOK NoLostWakeup
SYMMETRY Symmetry
CHECK_DEADLOCK FALSE
