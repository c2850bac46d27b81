\* A timeout longer than the period of the counter.
CONSTANTS
    a = a
    b = b
    Timers = {a, b}
    Overflow = Overflow
    None = None
    Delays = {1, 6}
    Period = 4
    Epochs = 9
    MaxRefs = 0
    MaxStall = 0
    Horizon = 12
SYMMETRY Symmetry
SPECIFICATION Spec
INVARIANTS ClockExact
