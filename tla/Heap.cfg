SPECIFICATION Spec
CONSTANTS
    HeapSize = 40
    Header = 4
    Unit = 2
    MinSize = 3
    Requests = {0, 5, 6, 11}
INVARIANTS HeapSound PanicJustified LiveExact
PROPERTY IsArena
