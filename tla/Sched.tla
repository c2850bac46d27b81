------------------------------- MODULE Sched -------------------------------
(***************************************************************************)
(* The preemptive thread scheduler of the MCHCK runtime:                   *)
(* src/src/common/sched.c and the Cortex-M half, sched-m3.c (sched-m0.c    *)
(* has the same logic).                                                    *)
(*                                                                         *)
(* Every exception of the system has the same (reset) priority, so a       *)
(* handler runs to completion and is one action.  Between handlers the     *)
(* processor takes the pending exception with the lowest number: PendSV    *)
(* (14) before SysTick (15) and before every peripheral interrupt (16 and  *)
(* up).  So no action but PendSV_Handler is enabled while pendsv is set.   *)
(*                                                                         *)
(* The registers and the stack of a thread are not modelled: what a thread *)
(* computes is the choice of its next system call.                         *)
(***************************************************************************)
EXTENDS Naturals, Queues

CONSTANTS Threads,     \* the struct threads of the program
          initial,     \* the thread that main() becomes
          NoThread,    \* curthread == NULL: the idle loop
          Idents,      \* the wait channels threads sleep on
          NULL,        \* the channel of a thread that sleeps for good
          Slice,       \* scheduler_timeslice, in units the model tells apart
          Reload,      \* the values of SysTick->LOAD, which has 24 bits
          StackJunk,   \* what slice_remaining can hold in a fresh stack
          PrioArgs     \* the arguments programs give to thread_setprio

REALTIME == 0
NORMAL == 1
BESTEFFORT == 2
PRIO_MAX == BESTEFFORT
Prios == REALTIME..PRIO_MAX

ASSUME SchedAssumption ==
    /\ initial \in Threads
    /\ NoThread \notin Threads
    /\ NULL \in Idents
    /\ Reload \in Nat \ {0}
    /\ Slice \in 1..Reload - 1
    /\ StackJunk \subseteq Nat
    /\ PrioArgs \subseteq Nat

VARIABLES
    mode,       \* "boot" until enter_thread_mode, "fault" after a hard fault
    curthread,  \* the thread on the processor, or NoThread
    runq,       \* one FIFO of runnable threads for each priority
    blockedq,   \* the FIFO of blocked threads
    state, ident, slice, prio,  \* the fields of each struct thread
    pendsv,     \* SCB->ICSR.PENDSVSET: a reschedule is due
    systick,    \* what was written to SysTick->LOAD, 0 when the timer is off
    fresh       \* history: threads created and not dispatched yet

vars == <<mode, curthread, runq, blockedq, state, ident, slice, prio,
          pendsv, systick, fresh>>

States == {"invalid", "running", "runq", "blocked"}

-----------------------------------------------------------------------------
(* Boot                                                                    *)

Init ==
    /\ mode = "boot"
    /\ curthread = NoThread
    /\ runq = [p \in Prios |-> <<>>]
    /\ blockedq = <<>>
    /\ state = [t \in Threads |-> "invalid"]
    /\ ident = [t \in Threads |-> NULL]
    /\ slice = [t \in Threads |-> 0]
    /\ prio = [t \in Threads |-> NORMAL]
    /\ pendsv = FALSE
    /\ systick = 0
    /\ fresh = {}

\* mi_thread_init of a new thread u: what it does to u and to the run queue.
\* It does not ask for a reschedule, whatever the priority of its caller.
Enqueue(u) ==
    /\ state[u] = "invalid" /\ u # initial
    /\ state' = [state EXCEPT ![u] = "runq"]
    /\ prio' = [prio EXCEPT ![u] = NORMAL]
    /\ runq' = [runq EXCEPT ![NORMAL] = Append(@, u)]
    /\ fresh' = fresh \union {u}
    /\ UNCHANGED <<curthread, blockedq, ident, pendsv, systick>>

\* thread_init called from main before enter_thread_mode.  The line
\* "curthread->slice_remaining = 0" then writes through a null pointer: the
\* store goes to the vector table, which faults or is ignored by the target.
BootThreadInit(u) ==
    /\ mode = "boot"
    /\ \/ /\ Enqueue(u)
          /\ \E junk \in StackJunk : slice' = [slice EXCEPT ![u] = junk]
          /\ mode' = mode
       \/ /\ state[u] = "invalid" /\ u # initial
          /\ mode' = "fault"
          /\ UNCHANGED <<curthread, runq, blockedq, state, ident, slice, prio,
                         pendsv, systick, fresh>>

\* The default hard fault handler spins.
HardFault == mode = "fault" /\ UNCHANGED vars

\* enter_thread_mode turns main into the thread initial and yields.
EnterThreadMode ==
    /\ mode = "boot"
    /\ mode' = "threads"
    /\ curthread' = initial
    /\ state' = [state EXCEPT ![initial] = "running"]
    /\ prio' = [prio EXCEPT ![initial] = NORMAL]
    /\ slice' = [slice EXCEPT ![initial] = 0]
    /\ pendsv' = TRUE
    /\ UNCHANGED <<runq, blockedq, ident, systick, fresh>>

-----------------------------------------------------------------------------
(* Handlers.  None of them runs while a PendSV is pending.                 *)

HandlerMayRun == mode = "threads" /\ ~pendsv

\* What the timer counts from: a timer that is loaded with 0 never expires.
Load == systick % Reload

\* Mutant of TimeLeft: the slice is read back without the part consumed.
TimeLeftUncharged == {Load}

\* md_sched_update_timeslice: the current count of the timer, or 0 once it
\* wrapped or has next to nothing left.  The handler that reads it has
\* consumed part of the slice.
TimeLeft == IF Load = 0 THEN {0} ELSE 0..(Load - 1)

\* sys_yield with curthread still running: the rest of its slice is forfeit.
Forfeit ==
    /\ slice' = [slice EXCEPT ![curthread] = 0]
    /\ pendsv' = TRUE

Yield(t) ==
    /\ HandlerMayRun /\ curthread = t
    /\ Forfeit
    /\ UNCHANGED <<mode, curthread, runq, blockedq, state, ident, prio,
                   systick, fresh>>

SysTick ==
    /\ HandlerMayRun /\ Load > 0
    /\ Forfeit
    /\ UNCHANGED <<mode, curthread, runq, blockedq, state, ident, prio,
                   systick, fresh>>

\* sys_wait_cond: return at once when the watched word has changed.
WaitCond(t, id, unchanged) ==
    /\ HandlerMayRun /\ curthread = t
    /\ IF unchanged
       THEN /\ ident' = [ident EXCEPT ![t] = id]
            /\ state' = [state EXCEPT ![t] = "blocked"]
            /\ \E left \in TimeLeft : slice' = [slice EXCEPT ![t] = left]
            /\ pendsv' = TRUE
       ELSE UNCHANGED <<ident, state, slice, pendsv>>
    /\ UNCHANGED <<mode, curthread, runq, blockedq, prio, systick, fresh>>

\* Mutant of Sleepers: the loop of sys_wakeup stops at the first match.
SleepersFirst(id) ==
    {blockedq[i] : i \in {k \in 1..Len(blockedq) :
        /\ ident[blockedq[k]] = id
        /\ \A j \in 1..(k - 1) : ident[blockedq[j]] # id}}

\* The blocked threads a wakeup of id finds.
Sleepers(id) == {t \in Threads : Contains(blockedq, t) /\ ident[t] = id}

\* The run queue of priority p after the threads W were moved to it one by
\* one: those with time left go to the head, the others to the tail.
Refill(p, W) ==
    LET mine == {t \in W : prio[t] = p} IN
    Reverse(Keep(blockedq, {t \in mine : slice[t] # 0}))
    \o runq[p]
    \o Keep(blockedq, {t \in mine : slice[t] = 0})

\* Mutant of Outranks: no reschedule out of the idle loop.
OutranksRunning(t) == curthread # NoThread /\ prio[t] < prio[curthread]

\* Mutant of Outranks: a tie preempts.
OutranksOrTies(t) == curthread = NoThread \/ prio[t] <= prio[curthread]

\* A woken thread needs the processor now.
Outranks(t) == curthread = NoThread \/ prio[t] < prio[curthread]

\* Mutant of SysWakeup: STAILQ_REMOVE is missing.
SysWakeupKeeps(id) ==
    LET woken == Sleepers(id) IN
    /\ runq' = [p \in Prios |-> Refill(p, woken)]
    /\ state' = [t \in Threads |-> IF t \in woken THEN "runq" ELSE state[t]]
    /\ pendsv' = (pendsv \/ \E t \in woken : Outranks(t))
    /\ UNCHANGED <<mode, curthread, blockedq, ident, slice, prio, systick,
                   fresh>>

SysWakeup(id) ==
    LET woken == Sleepers(id) IN
    /\ blockedq' = Keep(blockedq, Threads \ woken)
    /\ runq' = [p \in Prios |-> Refill(p, woken)]
    /\ state' = [t \in Threads |-> IF t \in woken THEN "runq" ELSE state[t]]
    /\ pendsv' = (pendsv \/ \E t \in woken : Outranks(t))
    /\ UNCHANGED <<mode, curthread, ident, slice, prio, systick, fresh>>

\* wakeup called by a thread, through SVC, or by an interrupt handler,
\* directly (md_handler_syscall).
Wakeup(t, id) == HandlerMayRun /\ curthread = t /\ SysWakeup(id)
IrqWakeup(id) == HandlerMayRun /\ SysWakeup(id)

\* Mutant of SetPrio: no check against THREAD_PRIO_MAX.
SetPrioUnchecked(t, p) ==
    /\ HandlerMayRun /\ curthread = t /\ prio[t] # p
    /\ prio' = [prio EXCEPT ![t] = p]
    /\ pendsv' = TRUE
    /\ UNCHANGED <<mode, curthread, runq, blockedq, state, ident, slice,
                   systick, fresh>>

SetPrio(t, p) ==
    /\ HandlerMayRun /\ curthread = t
    /\ IF p > PRIO_MAX \/ prio[t] = p
       THEN UNCHANGED <<prio, pendsv>>
       ELSE /\ prio' = [prio EXCEPT ![t] = p]
            /\ pendsv' = TRUE
    /\ UNCHANGED <<mode, curthread, runq, blockedq, state, ident, slice,
                   systick, fresh>>

\* thread_init called by thread t.  The slice that is cleared is the
\* caller's; the new thread keeps what its stack memory held.
ThreadInit(t, u) ==
    /\ HandlerMayRun /\ curthread = t
    /\ Enqueue(u)
    /\ \E junk \in StackJunk :
          slice' = [slice EXCEPT ![t] = 0, ![u] = junk]
    /\ mode' = mode

-----------------------------------------------------------------------------
(* PendSV_Handler and scheduler()                                          *)

Displaced == curthread # NoThread /\ state[curthread] \in {"running", "runq"}
Sleeping == curthread # NoThread /\ state[curthread] = "blocked"

\* Mutant of BlockedBack: the scheduler forgets a thread that blocked.
BlockedForgotten == blockedq

\* The queues once curthread has been put back.
RunqBack == IF Displaced
            THEN [runq EXCEPT ![prio[curthread]] = Append(@, curthread)]
            ELSE runq
BlockedBack == IF Sleeping THEN Append(blockedq, curthread) ELSE blockedq
StateBack == IF Displaced THEN [state EXCEPT ![curthread] = "runq"] ELSE state

\* The best priority with a runnable thread.
IsBest(p, q) == q[p] # <<>> /\ \A r \in Prios : q[r] # <<>> => p <= r

\* Mutant of Dispatch: a used-up slice is not renewed.
DispatchUsedUp(t) ==
    /\ curthread' = t
    /\ runq' = [RunqBack EXCEPT ![prio[t]] = Tail(@)]
    /\ state' = [StateBack EXCEPT ![t] = "running"]
    /\ systick' = IF prio[t] = REALTIME THEN 0 ELSE slice[t]
    /\ fresh' = fresh \ {t}
    /\ UNCHANGED slice

Dispatch(t) ==
    /\ curthread' = t
    /\ runq' = [RunqBack EXCEPT ![prio[t]] = Tail(@)]
    /\ state' = [StateBack EXCEPT ![t] = "running"]
    /\ slice' = [slice EXCEPT ![t] = IF @ = 0 THEN Slice ELSE @]
    /\ systick' = IF prio[t] = REALTIME THEN 0 ELSE slice'[t]
    /\ fresh' = fresh \ {t}

Idle ==
    /\ curthread' = NoThread
    /\ runq' = RunqBack
    /\ state' = StateBack
    /\ systick' = 0
    /\ UNCHANGED <<slice, fresh>>

PendSV ==
    /\ mode = "threads" /\ pendsv
    /\ pendsv' = FALSE
    /\ blockedq' = BlockedBack
    /\ \/ \E p \in Prios : IsBest(p, RunqBack) /\ Dispatch(Head(RunqBack[p]))
       \/ (\A p \in Prios : RunqBack[p] = <<>>) /\ Idle
    /\ UNCHANGED <<mode, ident, prio>>

-----------------------------------------------------------------------------
Syscall(t) ==
    \/ Yield(t)
    \/ \E id \in Idents, unchanged \in BOOLEAN : WaitCond(t, id, unchanged)
    \/ \E id \in Idents : Wakeup(t, id)
    \/ \E p \in PrioArgs : SetPrio(t, p)
    \/ \E u \in Threads : ThreadInit(t, u)

Next ==
    \/ \E u \in Threads : BootThreadInit(u)
    \/ EnterThreadMode
    \/ HardFault
    \/ \E t \in Threads : Syscall(t)
    \/ \E id \in Idents : IrqWakeup(id)
    \/ SysTick
    \/ PendSV

Spec == Init /\ [][Next]_vars

\* A pending exception is taken, and an enabled timer expires.  Nothing makes
\* a thread issue a system call or a device interrupt.
FairSpec == Spec /\ WF_vars(PendSV) /\ WF_vars(SysTick)

-----------------------------------------------------------------------------
(* Properties                                                              *)

TypeOK ==
    /\ mode \in {"boot", "threads", "fault"}
    /\ curthread \in Threads \union {NoThread}
    /\ runq \in [Prios -> Seq(Threads)]
    /\ blockedq \in Seq(Threads)
    /\ state \in [Threads -> States]
    /\ ident \in [Threads -> Idents]
    /\ slice \in [Threads -> Nat]
    /\ prio \in [Threads -> Prios]
    /\ pendsv \in BOOLEAN
    /\ systick \in Nat
    /\ fresh \in SUBSET Threads

\* A queue holds only threads that are in the state and of the priority of
\* the queue, each of them once, and never the current thread.  (The queue
\* link is inside struct thread: a thread that is on two queues, or twice on
\* one, ties the lists of sched.c into a knot.)
QueuesSound ==
    /\ NoDuplicates(blockedq) /\ \A p \in Prios : NoDuplicates(runq[p])
    /\ \A t \in Threads :
          Contains(blockedq, t) => state[t] = "blocked" /\ t # curthread
    /\ \A p \in Prios, t \in Threads :
          Contains(runq[p], t) =>
              state[t] = "runq" /\ prio[t] = p /\ t # curthread

\* No thread is lost: a runnable thread is on the run queue of its priority
\* and a blocked one where a wakeup finds it, except that the current thread
\* is on no queue; it runs, or has just blocked and is about to be put away.
NoThreadLost ==
    \A t \in Threads :
        IF t = curthread
        THEN state[t] = "running" \/ (state[t] = "blocked" /\ pendsv)
        ELSE /\ state[t] # "running"
             /\ state[t] = "runq" => Contains(runq[prio[t]], t)
             /\ state[t] = "blocked" => Contains(blockedq, t)

\* Whenever thread code runs, no thread that was dispatched before waits
\* behind a current thread of lower priority, and the processor idles only
\* when nothing is runnable.  (thread_init does not reschedule, so a new
\* thread may wait for the end of a slice.)
PriorityRespected ==
    (mode = "threads" /\ ~pendsv) =>
        \A p \in Prios, t \in Threads :
            Contains(runq[p], t) =>
                curthread # NoThread /\ (t \in fresh \/ prio[curthread] <= p)

\* While thread code runs, the timer that ends the slice is armed and counts,
\* unless the current thread is a realtime one; in the idle loop it is off,
\* since SysTick_Handler reads curthread without a check.  It does not count
\* for a new thread whose stack held a slice that LOAD takes for 0:
\* thread_init clears the slice of its caller, not of the thread it makes.
Unclocked == systick \in StackJunk \ {0} /\ Load = 0
TimerArmed ==
    (mode = "threads" /\ ~pendsv) =>
        /\ systick > 0 <=> (curthread # NoThread /\ prio[curthread] # REALTIME)
        /\ systick > 0 => Load > 0 \/ Unclocked

\* "realtime threads do not get interrupted" (sched-m3.c:176): whatever an
\* interrupt or another thread's wakeup does, a reschedule never comes due
\* for a current realtime thread unless it blocks, yields or changes its
\* priority itself.  (TimerArmed excludes the timer, whose effect is Yield's.)
GaveUp(t) == state'[t] = "blocked" \/ prio'[t] # prio[t] \/ Yield(t)
RealtimeKeepsCpu ==
    [][(/\ HandlerMayRun /\ curthread # NoThread
        /\ prio[curthread] = REALTIME /\ pendsv')
       => GaveUp(curthread)]_vars

\* No starvation: a thread that waits on the run queue of a time-sliced
\* priority forever does so only if, from some moment on, a thread of a
\* better priority is runnable all the time, or a thread whose timer does not
\* count keeps the processor.
BetterRunnable(t) ==
    \E u \in Threads : state[u] \in {"running", "runq"} /\ prio[u] < prio[t]
NoStarvation ==
    \A t \in Threads :
        <>[](state[t] = "runq" /\ prio[t] # REALTIME /\ mode = "threads")
            => <>[]BetterRunnable(t) \/ <>[]Unclocked

\* The inductive invariant behind them: what is on a queue is exactly what the
\* states and priorities say, and before boot nothing runs.
QueuesExact ==
    /\ NoDuplicates(blockedq) /\ \A p \in Prios : NoDuplicates(runq[p])
    /\ \A t \in Threads :
          Contains(blockedq, t) <=> (state[t] = "blocked" /\ t # curthread)
    /\ \A p \in Prios, t \in Threads :
          Contains(runq[p], t) <=> (state[t] = "runq" /\ prio[t] = p)
    /\ \A t \in Threads : state[t] = "running" => t = curthread
    /\ curthread # NoThread =>
          \/ state[curthread] = "running"
          \/ state[curthread] = "blocked" /\ pendsv
BootQuiet ==
    mode # "threads" => /\ curthread = NoThread /\ ~pendsv /\ systick = 0
                        /\ state[initial] = "invalid"
SchedInv == TypeOK /\ QueuesExact /\ BootQuiet

-----------------------------------------------------------------------------
(* The scheduler implements ThreadSpec                                     *)

StatusOf(t) == CASE state[t] = "invalid" -> "none"
                 [] state[t] = "runq" -> "ready"
                 [] state[t] = "blocked" -> "waiting"
                 [] state[t] = "running" -> "running"

AbsThreads == INSTANCE ThreadSpec
       WITH status <- [t \in Threads |-> StatusOf(t)],
            chan <- [t \in Threads |->
                        IF state[t] = "blocked" THEN ident[t] ELSE NULL],
            Default <- NORMAL

\* Every step of the scheduler is a step ThreadSpec allows, or changes nothing
\* it shows: no sleeper is woken by the wrong channel or left asleep by the
\* right one, and every dispatch picks a thread of the best priority.
ImplementsThreadSpec == AbsThreads!Spec
=============================================================================
