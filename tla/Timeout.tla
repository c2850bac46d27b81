------------------------------ MODULE Timeout ------------------------------
(***************************************************************************)
(* The software timers of src/src/soc/kinetis/timeout.c over one low-power *)
(* timer (LPTMR0) that counts milliseconds in a 16-bit register.           *)
(*                                                                         *)
(* The functions run with interrupts masked, and no handler interrupts     *)
(* another; what happens meanwhile is that the counter goes on.  So the    *)
(* functions that read the counter and later program the compare register  *)
(* from what they read are split there, and up to MaxStall ticks fall into *)
(* each piece.  "main" stands for all code outside LPTMR0_Handler.         *)
(*                                                                         *)
(* timeout_cancel and timeout_add are called as their signatures ask: with *)
(* a context that is in the queue, respectively one that is not.           *)
(***************************************************************************)
EXTENDS Integers, FiniteSets, Sequences, SequencesExt

CONSTANTS Timers,    \* the struct timeout_ctx of the program
          Overflow,  \* the module's own one
          None,
          Delays,    \* the arguments ms
          Period,    \* values of the 16-bit counter
          Epochs,    \* values of the 16-bit epoch
          MaxRefs,   \* bound: references held at once
          MaxStall,  \* bound: ticks during masked code, or until a pending
                     \* interrupt is taken
          Horizon    \* bound: ticks in a run

ASSUME TimeoutAssumption ==
    /\ IsFiniteSet(Timers)
    /\ Overflow \notin Timers /\ None \notin Timers \union {Overflow}
    /\ Delays \subseteq Nat
    /\ Period \in Nat \ {0} /\ Epochs \in Nat \ {0}
    /\ MaxRefs \in Nat /\ MaxStall \in Nat /\ Horizon \in Nat

Wrap == Period * Epochs
Times == 0..(Wrap - 1)
Contexts == Timers \union {Overflow}

VARIABLES
    queue,    \* timeout_queue
    due,      \* time.time of each context
    lazy,     \* timeout_lazy_now.time
    refs,     \* timeout_ref_count
    cnr, cmr, ten, tcf,  \* LPTMR0: counter, compare, enable, compare flag
    latched,  \* the interrupt is pending in the NVIC
    pc,       \* where the masked code is, "main" outside it
    running,  \* the context whose callback runs
    ticks,    \* history: ticks of the enabled timer
    readAt,   \* history: ticks at the last timeout_update_time
    zero,     \* history: the time that tick 0 stands for
    asked,    \* history: the last tick at which a timeout is early
    stall     \* ticks spent in the current piece of masked code

queueVars == <<queue, due, lazy, refs>>
timerVars == <<cnr, cmr, ten, tcf>>
history == <<ticks, readAt, zero, asked>>
tvars == <<queueVars, timerVars, latched, pc, running, history, stall>>

\* Callers: main, a callback, or LPTMR0_Handler itself at its end.
Labels == {"main", "mainResched", "callback", "callbackResched", "endResched"}

Init ==
    /\ queue = <<>>
    /\ due = [t \in Contexts |-> 0]
    /\ lazy = 0 /\ refs = 0
    /\ cnr = 0 /\ cmr = 0 /\ ten = FALSE /\ tcf = FALSE
    /\ latched = FALSE
    /\ pc = "main" /\ running = None
    /\ ticks = 0 /\ readAt = 0 /\ zero = 0
    /\ asked = [t \in Timers |-> 0]
    /\ stall = 0

\* The interrupt request: TIE is set and cleared together with TEN.
Irq == latched \/ (ten /\ tcf)

\* The bound on stalls starts afresh when masked code ends and no interrupt
\* waits.
Resume == stall' = IF pc' = "main" /\ ~latched' /\ ~(ten' /\ tcf')
                   THEN 0 ELSE stall

-----------------------------------------------------------------------------
(* The hardware                                                            *)

\* One millisecond.  The counter runs free; the flag goes up when the counter
\* leaves the value of the compare register.
Tick ==
    LET hit == cnr = cmr
        busy == pc # "main" \/ Irq
    IN
    /\ ten /\ ticks < Horizon
    /\ busy => stall < MaxStall
    /\ stall' = IF busy THEN stall + 1 ELSE 0
    /\ cnr' = (cnr + 1) % Period
    /\ tcf' = (tcf \/ hit)
    /\ latched' = (latched \/ (hit /\ ~tcf))
    /\ ticks' = ticks + 1
    /\ UNCHANGED <<queueVars, cmr, ten, pc, running, readAt, zero, asked>>

-----------------------------------------------------------------------------
(* Helpers of timeout.c                                                    *)

\* Mutant of Now: the epoch is never advanced.
NowNoEpoch == lazy - (lazy % Period) + cnr

\* timeout_update_time: the epoch advances when the counter went backwards.
Now == LET epoch == lazy - (lazy % Period) IN
       (epoch + cnr + IF lazy % Period > cnr THEN Period ELSE 0) % Wrap

UpdateTime ==
    /\ lazy' = Now
    /\ readAt' = ticks
    /\ zero' = IF ten THEN zero ELSE Now - ticks

\* timeout_schedule_wrap: an entry for one tick less than a period from lazy,
\* at the head of the queue.
WrapTime == (lazy + Wrap - 1 + Period) % Wrap
ScheduleWrap(q) ==
    /\ queue' = <<Overflow>> \o q
    /\ due' = [due EXCEPT ![Overflow] = WrapTime]

\* "will we have to wrap the epoch before the next timeout?"
NeedsWrap(t) ==
    /\ due[t] % Period > lazy % Period
    /\ due[t] \div Period > lazy \div Period

\* timeout_reschedule, with the queue q the caller leaves.
Stop(q) ==
    /\ q = <<>> /\ refs' = 0
    /\ ten' = FALSE /\ cnr' = 0 /\ tcf' = FALSE
    /\ queue' = q
    /\ UNCHANGED <<due, cmr>>

KeepRunning(q) ==
    /\ q = <<>> /\ refs' > 0
    /\ ScheduleWrap(q)
    /\ UNCHANGED timerVars

Arm(q) ==
    /\ q # <<>>
    /\ IF NeedsWrap(Head(q)) THEN ScheduleWrap(q)
                             ELSE queue' = q /\ UNCHANGED due
    /\ cmr' = due'[Head(queue')] % Period
    /\ ten' = TRUE /\ tcf' = FALSE
    /\ UNCHANGED cnr

Reschedule(q) == Stop(q) \/ KeepRunning(q) \/ Arm(q)

-----------------------------------------------------------------------------
(* The functions                                                           *)

\* main, or the callback of a timeout, can call the functions.
CanCall == pc = "main" \/ (pc = "callback" /\ running \in Timers)
Resched == IF pc = "main" THEN "mainResched" ELSE "callbackResched"
Return == CASE pc = "mainResched" -> "main"
            [] pc = "callbackResched" -> "callback"
            [] pc = "endResched" -> "main"

\* Mutant of DueAt: the tick that is already under way is not made up for.
DueAtEarly(ms) == (ms + Now) % Wrap

DueAt(ms) == (ms + Now + 1) % Wrap

\* Mutant of Insert: at the end of the list, whatever the times.
InsertLast(q, t, time) == Append(q, t)

\* t goes before the first entry of queue q that is due later than time.
Insert(q, t, time) ==
    LET before == SelectInSeq(q, LAMBDA u : due[u] > time) IN
    IF before = 0 THEN Append(q, t) ELSE InsertAt(q, before, t)

\* Mutant of NewHead: only the first entry of an empty list arms the timer.
NewHeadIfEmpty(t) == queue' = <<t>>

\* The new entry is the first: the timer has to be set for it.
NewHead(t) == Head(queue') = t

\* timeout_add up to "if (timeout_queue == t)".
TimeoutAdd(t, ms) ==
    /\ CanCall /\ ~Contains(queue, t)
    /\ UpdateTime
    /\ due' = [due EXCEPT ![t] = DueAt(ms)]
    /\ queue' = Insert(queue, t, DueAt(ms))
    /\ asked' = [asked EXCEPT ![t] = ticks + ms]
    /\ pc' = IF NewHead(t) THEN Resched ELSE pc
    /\ UNCHANGED <<refs, timerVars, latched, running, ticks>>
    /\ Resume

\* The call of timeout_reschedule that ends timeout_add and LPTMR0_Handler.
TimeoutReschedule ==
    /\ pc \in {"mainResched", "callbackResched", "endResched"}
    /\ UNCHANGED <<lazy, refs>>
    /\ Reschedule(queue)
    /\ pc' = Return
    /\ UNCHANGED <<latched, running, history>>
    /\ Resume

\* timeout_cancel of a queued timeout.  The clock is not read.
TimeoutCancel(t) ==
    /\ CanCall /\ Contains(queue, t)
    /\ UNCHANGED <<lazy, refs>>
    /\ IF Head(queue) = t
       THEN Reschedule(Tail(queue))
       ELSE /\ \E i \in 1..Len(queue) :
                  queue[i] = t /\ queue' = RemoveAt(queue, i)
            /\ UNCHANGED <<due, timerVars>>
    /\ UNCHANGED <<latched, pc, running, history, stall>>

TimeoutGetRef ==
    /\ CanCall /\ refs < MaxRefs
    /\ refs' = refs + 1
    /\ Reschedule(queue)
    /\ UNCHANGED <<lazy, latched, pc, running, history, stall>>

\* Mutant of TimeoutPutRef: no check that there is a reference.
TimeoutPutRefUnchecked ==
    /\ CanCall
    /\ refs' = refs - 1
    /\ Reschedule(queue)
    /\ UNCHANGED <<lazy, latched, pc, running, history, stall>>

\* timeout_put_ref by somebody who holds a reference; without one it panics.
TimeoutPutRef ==
    /\ CanCall /\ refs > 0
    /\ refs' = refs - 1
    /\ Reschedule(queue)
    /\ UNCHANGED <<lazy, latched, pc, running, history, stall>>

TimeoutGetTime ==
    /\ CanCall /\ UpdateTime
    /\ UNCHANGED <<queue, due, refs, timerVars, latched, pc, running,
                   ticks, asked, stall>>

-----------------------------------------------------------------------------
(* LPTMR0_Handler                                                          *)

\* The condition of the loop, right after timeout_update_time.
Expired(q) == q # <<>> /\ due[Head(q)] <= Now

\* An expired head leaves the queue and its callback starts; otherwise the
\* loop ends.
Loop ==
    /\ UpdateTime
    /\ IF Expired(queue)
       THEN queue' = Tail(queue) /\ running' = Head(queue) /\ pc' = "callback"
       ELSE pc' = "endResched" /\ running' = None /\ UNCHANGED queue
    /\ stall' = 0
    /\ UNCHANGED <<due, refs, timerVars, ticks, asked>>

LPTMR0_Handler ==
    /\ pc = "main" /\ Irq
    /\ latched' = FALSE
    /\ Loop

CallbackReturns ==
    /\ pc = "callback"
    /\ Loop
    /\ UNCHANGED latched

Next ==
    \/ Tick
    \/ \E t \in Timers, ms \in Delays : TimeoutAdd(t, ms)
    \/ \E t \in Timers : TimeoutCancel(t)
    \/ TimeoutReschedule
    \/ TimeoutGetRef \/ TimeoutPutRef \/ TimeoutGetTime
    \/ LPTMR0_Handler \/ CallbackReturns

Spec == Init /\ [][Next]_tvars

-----------------------------------------------------------------------------
(* Properties                                                              *)

TypeOK ==
    /\ queue \in Seq(Contexts)
    /\ due \in [Contexts -> Times]
    /\ lazy \in Times /\ refs \in 0..MaxRefs
    /\ cnr \in 0..(Period - 1) /\ cmr \in 0..(Period - 1)
    /\ ten \in BOOLEAN /\ tcf \in BOOLEAN /\ latched \in BOOLEAN
    /\ pc \in Labels /\ running \in Contexts \union {None}
    /\ ticks \in 0..Horizon /\ readAt \in 0..ticks /\ zero \in Int
    /\ asked \in [Timers -> Nat]
    /\ stall \in 0..MaxStall

\* The list is sorted and holds no context twice, the overflow entry that
\* timeout_schedule_wrap puts at its head without a look at it included.
QueueSorted ==
    \A i, j \in 1..Len(queue) :
        i < j => due[queue[i]] <= due[queue[j]] /\ queue[i] # queue[j]

\* No callback runs before the time timeout_add was asked for has gone by,
\* however the calls interleave and however far the clock is behind.  (The
\* call may come at any moment of a millisecond, so ms milliseconds are over
\* only with the tick after the next ms.)
NeverEarly ==
    [][\A t \in Timers :
          (LPTMR0_Handler \/ CallbackReturns) /\ running' = t
              => ticks > asked[t]]_tvars

\* A timeout is late by no more than the two ticks the resolution of the timer
\* costs and, for each timeout of the program, one piece of masked code: the
\* callbacks of all that are due before it.  Above all, the compare register is
\* never programmed to a value the counter has already left, which would cost a
\* whole period (timeout.c:115 asks about that).
OnTime ==
    \A t \in Timers :
        Contains(queue, t) =>
            ticks <= asked[t] + 2 + MaxStall * Cardinality(Timers)

\* While the timer runs, timeout_lazy_now neither loses nor gains a tick from
\* one update to the next, although the counter wraps and is only looked at
\* now and then.
ClockExact == lazy = zero + readAt

\* Whoever holds a reference has a running clock.
TimebaseRuns == (refs > 0 /\ pc = "main") => ten
=============================================================================
