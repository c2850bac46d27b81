\* A thread and the callbacks it interleaves with.
CONSTANTS
    FlashTrans = {t1, t2}
    FlashThreads = {h1}
SPECIFICATION FlashSpec
INVARIANTS RunningIsQueued
