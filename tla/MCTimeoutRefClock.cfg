\* A reference and no timeout.
CONSTANTS
    a = a
    b = b
    Timers = {a, b}
    Overflow = Overflow
    None = None
    Delays = {1}
    Period = 4
    Epochs = 9
    MaxRefs = 1
    MaxStall = 0
    Horizon = 6
SYMMETRY Symmetry
SPECIFICATION Spec
INVARIANTS TimebaseRuns
