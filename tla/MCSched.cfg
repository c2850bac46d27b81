\* Three threads, one of them main, two channels, all priorities.
CONSTANTS
    main = main
    t1 = t1
    t2 = t2
    chan = chan
    NoThread = NoThread
    NULL = NULL
    Threads = {main, t1, t2}
    initial = main
    Idents = {chan, NULL}
    Slice = 2
    Reload = 4
    StackJunk = {0, 3, 4}
    PrioArgs = {0, 1, 2, 3}
SPECIFICATION FairSpec
INVARIANTS TypeOK QueuesSound NoThreadLost PriorityRespected TimerArmed
PROPERTIES RealtimeKeepsCpu ImplementsThreadSpec NoStarvation
