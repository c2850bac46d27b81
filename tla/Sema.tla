-------------------------------- MODULE Sema --------------------------------
(***************************************************************************)
(* The counting semaphores of src/src/common/sema.c on top of the          *)
(* scheduler: threads that loop through sema_wait_count,                   *)
(* sema_try_wait_count and sema_wake_count of one semaphore, and interrupt *)
(* handlers that call sema_wake_count.  A thread can lose the processor    *)
(* between any two of the steps below; a handler cannot.                   *)
(***************************************************************************)
EXTENDS Sched

CONSTANTS sema,      \* the channel that is the semaphore's address
          Needs,     \* the amounts waited for
          Posts,     \* the amounts added
          MaxCount   \* bound: nobody posts beyond it

ASSUME SemaAssumption ==
    /\ sema \in Idents
    /\ MaxCount \in Nat
    /\ Needs \subseteq 1..MaxCount /\ Posts \subseteq 1..MaxCount

VARIABLES count,   \* sema->count
          pc,      \* where each thread is in the code of sema.c
          want,    \* its argument count
          old      \* its local variable oldcount

semaOnly == <<count, pc, want, old>>
semaVars == <<vars, semaOnly>>

Waiting == {"read", "decide"}   \* inside sema_wait_count
Trying == {"tryread", "trycas"}
Labels == {"idle", "post"} \union Waiting \union Trying

SemaInit ==
    /\ Init
    /\ count = 0
    /\ pc = [t \in Threads |-> "idle"]
    /\ want = [t \in Threads |-> 0]
    /\ old = [t \in Threads |-> 0]

OnCpu(t) == HandlerMayRun /\ curthread = t
At(t, label) == OnCpu(t) /\ pc[t] = label
Goto(t, label) == pc' = [pc EXCEPT ![t] = label]

\* A function of sema.c returns: its locals are gone.
Return(t) ==
    /\ Goto(t, "idle")
    /\ want' = [want EXCEPT ![t] = 0]
    /\ old' = [old EXCEPT ![t] = 0]

\* A thread calls sema_wait_count(n) or sema_try_wait_count(n).
Call(t, n) ==
    /\ At(t, "idle")
    /\ want' = [want EXCEPT ![t] = n]
    /\ Goto(t, "read") \/ Goto(t, "tryread")
    /\ UNCHANGED <<vars, count, old>>

\* oldcount = sema->count.  What it decides on comes in later steps.
Read(t) ==
    /\ At(t, "read")
    /\ old' = [old EXCEPT ![t] = count]
    /\ Goto(t, "decide")
    /\ UNCHANGED <<vars, count, want>>

Enough(t) == old[t] >= want[t]

\* Mutant of Swap: the new count is stored without comparing.
SwapBlind(t) ==
    /\ At(t, "decide") /\ Enough(t)
    /\ count' = old[t] - want[t]
    /\ Return(t)
    /\ UNCHANGED vars

\* __sync_bool_compare_and_swap; the loop starts over when it fails.
Swap(t) ==
    /\ At(t, "decide") /\ Enough(t)
    /\ IF count = old[t]
       THEN count' = count - want[t] /\ Return(t)
       ELSE Goto(t, "read") /\ UNCHANGED <<count, want, old>>
    /\ UNCHANGED vars

\* Mutant of StillOld: wait instead of wait_cond.
StillOldIgnored(t) == TRUE

\* wait_cond(sema, &sema->count, oldcount); the loop then starts over.
StillOld(t) == count = old[t]
Sleep(t) ==
    /\ At(t, "decide") /\ ~Enough(t)
    /\ WaitCond(t, sema, StillOld(t))
    /\ Goto(t, "read")
    /\ UNCHANGED <<count, want, old>>

TryRead(t) ==
    /\ At(t, "tryread")
    /\ IF count < want[t]
       THEN Return(t)
       ELSE /\ Goto(t, "trycas")
            /\ old' = [old EXCEPT ![t] = count]
            /\ UNCHANGED want
    /\ UNCHANGED <<vars, count>>

\* Mutant of TrySwap: an atomic subtraction that does not look again.
TrySubtract(t) ==
    /\ At(t, "trycas")
    /\ count' = count - want[t]
    /\ Return(t)
    /\ UNCHANGED vars

TrySwap(t) ==
    /\ At(t, "trycas")
    /\ count' = IF count = old[t] THEN count - want[t] ELSE count
    /\ Return(t)
    /\ UNCHANGED vars

\* sema_wake_count by a thread: the addition, then the wakeup.
Add(t, n) ==
    /\ At(t, "idle") /\ count + n <= MaxCount
    /\ count' = count + n
    /\ Goto(t, "post")
    /\ UNCHANGED <<vars, want, old>>

Post(t) ==
    /\ pc[t] = "post" /\ Wakeup(t, sema)
    /\ Goto(t, "idle")
    /\ UNCHANGED <<count, want, old>>

\* sema_wake_count by an interrupt handler.  Before enter_thread_mode no
\* thread sleeps and the wakeup has no effect.
IrqPost(n) ==
    /\ count + n <= MaxCount
    /\ count' = count + n
    /\ \/ mode = "boot" /\ UNCHANGED vars
       \/ IrqWakeup(sema)
    /\ UNCHANGED <<pc, want, old>>

\* The rest of the program: threads start, yield, change their priority.
Other ==
    /\ \/ \E u \in Threads : BootThreadInit(u)
       \/ EnterThreadMode
       \/ HardFault
       \/ \E t \in Threads :
             /\ pc[t] = "idle"
             /\ \/ Yield(t)
                \/ \E p \in PrioArgs : SetPrio(t, p)
       \/ SysTick
    /\ UNCHANGED semaOnly

Reschedule == PendSV /\ UNCHANGED semaOnly

\* A thread on the processor goes on with what it has begun.
Proceed(t) ==
    Read(t) \/ Swap(t) \/ Sleep(t) \/ TryRead(t) \/ TrySwap(t) \/ Post(t)

SemaNext ==
    \/ Other
    \/ Reschedule
    \/ \E t \in Threads : Proceed(t)
    \/ \E t \in Threads, n \in Needs : Call(t, n)
    \/ \E t \in Threads, n \in Posts : Add(t, n)
    \/ \E n \in Posts : IrqPost(n)

SemaSpec == SemaInit /\ [][SemaNext]_semaVars

\* Besides the scheduler's fairness: a thread that is dispatched again and
\* again gets on, since no dispatch is for less than 1/256 of a time slice.
SemaFairSpec ==
    /\ SemaSpec
    /\ WF_semaVars(Reschedule)
    /\ WF_semaVars(SysTick /\ UNCHANGED semaOnly)
    /\ \A t \in Threads : SF_semaVars(Proceed(t))

-----------------------------------------------------------------------------
(* Properties                                                              *)

SemaTypeOK ==
    /\ count \in 0..MaxCount
    /\ pc \in [Threads -> Labels]
    /\ want \in [Threads -> 0..MaxCount]
    /\ old \in [Threads -> 0..MaxCount]

\* No lost wakeup: if the count covers what a sleeping thread waits for, then
\* some thread has added to the count and is about to issue the wakeup.
\* (sys_wait_cond compares the count with the oldcount the thread saw, and
\* no interrupt runs between its decision to block and the moment the thread
\* is on the blocked queue.)
NoLostWakeup ==
    \A t \in Threads :
        (state[t] = "blocked" /\ count >= want[t])
            => \E u \in Threads : pc[u] = "post"

Abs == INSTANCE SemaphoreSpec
       WITH avail <- count,
            demand <- [t \in Threads |->
                          IF pc[t] \in Waiting THEN want[t] ELSE 0]

\* sema.c implements an atomic counting semaphore: nothing is granted twice
\* or without cover, and no post is lost.
ImplementsSemaphore == Abs!Spec

\* With threads of equal priority, a thread does not wait forever on a count
\* that covers its request while nobody else changes the count.
SemaProgress ==
    \A t \in Threads :
        <>[](pc[t] \in Waiting /\ count >= want[t])
            => []<><<count' # count>>_semaVars
=============================================================================
