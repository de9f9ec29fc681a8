SPECIFICATION Spec
CONSTANTS
  t1 = t1
  t2 = t2
  a = a
  Task = {t1, t2}
  Cluster = {2, 3, 4}
  Slot = {1, 2}
  Value = {a}
  Zero = Zero
  None = None
  Unknown = Unknown
  MaxSize = 2
  MaxFailures = 0
INVARIANT TruncatedIsEmpty
SYMMETRY TaskSymmetry
CHECK_DEADLOCK FALSE
