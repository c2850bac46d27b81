\* Timeouts well below the period of the counter, each piece of code up to a tick.
CONSTANTS
    a = a
    b = b
    Timers = {a, b}
    Overflow = Overflow
    None = None
    Delays = {0, 1}
    Period = 5
    Epochs = 9
    MaxRefs = 0
    MaxStall = 1
    Horizon = 9
SYMMETRY Symmetry
SPECIFICATION Spec
INVARIANTS OnTime ClockExact
