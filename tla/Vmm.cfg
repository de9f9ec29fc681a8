SPECIFICATION Spec
CONSTANTS
    m1 = m1
    m2 = m2
    dir = dir
    ts = ts
    th = th
    Space = {m1, m2}
    None = None
    First = m1
    NFrames = 6
    MaxRefs = 3
    Page <- MCPage
    Table = {dir, ts, th}
    Path <- MCPath
    Image <- MCImage
    Grow <- MCGrow
    StackTop = 1
    Val = {0, 1}
    Zero = 0
    FileVal = 1
    Stale = 1
    Gone = Gone
INVARIANTS WritableExclusive RefsExact TlbCoherent
PROPERTY IsPrivateMemory
CHECK_DEADLOCK FALSE
