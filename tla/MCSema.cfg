\* Three threads of one priority, with requests of 1 and 2 and posts of 1 and 2.
CONSTANTS
    main = main
    t1 = t1
    t2 = t2
    sema = sema
    NoThread = NoThread
    NULL = sema
    Threads = {main, t1, t2}
    initial = main
    Idents = {sema}
    Slice = 1
    Reload = 2
    StackJunk = {0}
    PrioArgs = {}
    Needs = {1, 2}
    Posts = {1, 2}
    MaxCount = 2
SPECIFICATION SemaFairSpec
INVARIANTS SemaTypeOK NoLostWakeup
PROPERTIES SemaProgress ImplementsSemaphore
