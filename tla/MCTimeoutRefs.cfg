\* Timeouts up to two periods, and references.
CONSTANTS
    a = a
    b = b
    Timers = {a, b}
    Overflow = Overflow
    None = None
    Delays = {0, 3}
    Period = 2
    Epochs = 9
    MaxRefs = 1
    MaxStall = 0
    Horizon = 5
SYMMETRY Symmetry
SPECIFICATION Spec
INVARIANTS TypeOK QueueSorted
PROPERTIES NeverEarly
