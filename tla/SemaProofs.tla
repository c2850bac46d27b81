----------------------------- MODULE SemaProofs -----------------------------
(***************************************************************************)
(* Proofs about Sema, for any set of threads, any amounts and any slice.   *)
(* That every step is one of the scheduler's carries the scheduler's       *)
(* invariant over; what remains is what sema.c itself does.                *)
(***************************************************************************)
EXTENDS Sema, SchedProofs

\* Only sema_wait_count puts threads to sleep, on the semaphore, and it then
\* starts over.
SleepsHere ==
    \A t \in Threads :
        state[t] = "blocked" =>
            mode = "threads" /\ pc[t] = "read" /\ ident[t] = sema

\* Inside sema.c a thread has asked for something, and one that is about to
\* swap without waiting has seen that there is enough.
Asked ==
    \A t \in Threads :
        /\ pc[t] \in Waiting \union Trying => want[t] > 0
        /\ pc[t] = "trycas" => old[t] >= want[t]

SemaLocal == SemaTypeOK /\ SleepsHere /\ Asked /\ NoLostWakeup
SemaInv == SchedInv /\ SemaLocal

LEMMA SemaInvImplies == SemaInv => SemaTypeOK /\ NoLostWakeup
  BY DEF SemaInv, SemaLocal

\* Nobody sleeps and nobody waits at reset.
LEMMA SemaInitInv == SemaInit => SemaInv
<1> SUFFICES ASSUME SemaInit PROVE SemaInv
  OBVIOUS
<1> USE SemaAssumption DEF SemaAssumption
<1>1. SchedInv
  BY InitInv DEF SemaInit
<1>2. SemaTypeOK
  <2>1. 0 \in 0..MaxCount
    OBVIOUS
  <2> QED
    BY <2>1 DEF SemaInit, SemaTypeOK, Labels
<1>3. \A t \in Threads : state[t] = "invalid" /\ pc[t] = "idle"
  BY DEF SemaInit, Init
<1>4. SleepsHere /\ NoLostWakeup
  BY <1>3 DEF SleepsHere, NoLostWakeup
<1>5. Asked
  BY <1>3 DEF Asked, Waiting, Trying
<1> QED
  BY <1>1, <1>2, <1>4, <1>5 DEF SemaInv, SemaLocal

-----------------------------------------------------------------------------
(* The scheduler underneath                                                *)

\* A step of sema.c is a system call, an interrupt, or none of the
\* scheduler's business.
LEMMA SemaStepsSched == [SemaNext]_semaVars => [Next]_vars
<1> SUFFICES ASSUME [SemaNext]_semaVars PROVE [Next]_vars
  OBVIOUS
<1> USE SemaAssumption DEF SemaAssumption
<1>1. CASE Other
  <2>1. CASE \E t \in Threads : Yield(t) \/ \E p \in PrioArgs : SetPrio(t, p)
    BY <2>1 DEF Next, Syscall
  <2> QED
    BY <1>1, <2>1 DEF Other, Next
<1>2. CASE Reschedule
  BY <1>2 DEF Reschedule, Next
<1>3. ASSUME NEW t \in Threads, Proceed(t) PROVE [Next]_vars
  <2>1. CASE Sleep(t)
    <3>1. StillOld(t) \in BOOLEAN
      BY DEF StillOld
    <3>2. WaitCond(t, sema, StillOld(t))
      BY <2>1 DEF Sleep
    <3>3. Syscall(t)
      BY <3>1, <3>2 DEF Syscall
    <3> QED
      BY <3>3 DEF Next
  <2>2. CASE Post(t)
    BY <2>2 DEF Post, Next, Syscall
  <2>3. CASE Read(t) \/ Swap(t) \/ TryRead(t) \/ TrySwap(t)
    BY <2>3 DEF Read, Swap, TryRead, TrySwap
  <2> QED
    BY <1>3, <2>1, <2>2, <2>3 DEF Proceed
<1>4. ASSUME NEW t \in Threads, NEW n \in Needs, Call(t, n) PROVE [Next]_vars
  BY <1>4 DEF Call
<1>5. ASSUME NEW t \in Threads, NEW n \in Posts, Add(t, n) PROVE [Next]_vars
  BY <1>5 DEF Add
<1>6. ASSUME NEW n \in Posts, IrqPost(n) PROVE [Next]_vars
  BY <1>6 DEF IrqPost, Next
<1>7. CASE UNCHANGED semaVars
  BY <1>7 DEF semaVars
<1> QED
  BY <1>1, <1>2, <1>3, <1>4, <1>5, <1>6, <1>7 DEF SemaNext

\* A wakeup of the semaphore leaves nobody asleep.
LEMMA AllWoken ==
    ASSUME SemaInv, HandlerMayRun, SysWakeup(sema)
    PROVE  \A t \in Threads : state'[t] # "blocked"
<1> SUFFICES ASSUME NEW t \in Threads, state'[t] = "blocked" PROVE FALSE
  OBVIOUS
<1>1. state'[t] = IF t \in Sleepers(sema) THEN "runq" ELSE state[t]
  BY DEF SysWakeup
<1>2. state[t] = "blocked" /\ t \notin Sleepers(sema)
  BY <1>1
<1>3. ident[t] = sema
  BY <1>2 DEF SemaInv, SemaLocal, SleepsHere
<1>4. t # curthread
  <2>1. NoThread \notin Threads
    BY SchedAssumption DEF SchedAssumption
  <2> QED
    BY <1>2, <2>1, OnCpuRuns DEF SemaInv
<1>5. Contains(blockedq, t)
  BY <1>2, <1>4 DEF SemaInv, SchedInv, QueuesExact
<1> QED
  BY <1>2, <1>3, <1>5 DEF Sleepers

\* What the scheduler does by itself puts nobody to sleep.
LEMMA NobodyBlocks ==
    ASSUME SchedInv, Other \/ Reschedule
    PROVE  /\ mode = "threads" => mode' = "threads"
           /\ ident' = ident
           /\ \A t \in Threads : state'[t] = "blocked" => state[t] = "blocked"
<1> USE SchedAssumption DEF SchedAssumption
<1>1. state \in [Threads -> States]
  BY DEF SchedInv, TypeOK
<1>2. ASSUME NEW u \in Threads, BootThreadInit(u)
      PROVE  /\ mode = "boot" /\ ident' = ident
             /\ \A t \in Threads : state'[t] = "blocked" => state[t] = "blocked"
  BY <1>1, <1>2 DEF BootThreadInit, Enqueue
<1>3. CASE EnterThreadMode
  BY <1>1, <1>3 DEF EnterThreadMode
<1>4. CASE HardFault
  BY <1>4 DEF HardFault, vars
<1>5. CASE SysTick \/ \E t \in Threads : Yield(t)
  BY <1>5 DEF SysTick, Yield
<1>6. CASE \E t \in Threads, p \in PrioArgs : SetPrio(t, p)
  BY <1>6 DEF SetPrio
<1>7. CASE PendSV
  <2>1. mode' = mode /\ ident' = ident
    BY <1>7 DEF PendSV
  <2>2. StateBack \in [Threads -> States]
        /\ \A t \in Threads : StateBack[t] = "blocked" => state[t] = "blocked"
    BY <1>1 DEF StateBack, Displaced, States
  <2>3. \/ state' = StateBack
        \/ \E u : state' = [StateBack EXCEPT ![u] = "running"]
    BY <1>7 DEF PendSV, Dispatch, Idle
  <2> QED
    BY <2>1, <2>2, <2>3
<1> QED
  BY <1>2, <1>3, <1>4, <1>5, <1>6, <1>7 DEF Other, Reschedule

-----------------------------------------------------------------------------
(* The steps                                                               *)

\* The scheduler's own steps leave the semaphore's part alone.
LEMMA SchedulerOnly ==
    ASSUME SemaInv, Other \/ Reschedule PROVE SemaLocal'
<1>1. SemaLocal /\ SchedInv
  BY DEF SemaInv
<1>2. UNCHANGED <<count, pc, want, old>>
  BY DEF Other, Reschedule, semaOnly
<1>3. /\ mode = "threads" => mode' = "threads"
      /\ ident' = ident
      /\ \A t \in Threads : state'[t] = "blocked" => state[t] = "blocked"
  BY <1>1, NobodyBlocks
<1>4. SemaTypeOK' /\ Asked'
  BY <1>1, <1>2 DEF SemaLocal, SemaTypeOK, Asked
<1>5. SleepsHere'
  BY <1>1, <1>2, <1>3 DEF SemaLocal, SleepsHere
<1>6. NoLostWakeup'
  BY <1>1, <1>2, <1>3 DEF SemaLocal, NoLostWakeup
<1> QED
  BY <1>4, <1>5, <1>6 DEF SemaLocal

\* A thread moves on in sema.c by itself: it is awake, and whoever is about to
\* issue a wakeup still is, unless the count did not grow and it was not the
\* one.
LEMMA ThreadMoves ==
    ASSUME SemaInv, NEW t \in Threads, OnCpu(t), UNCHANGED vars, SemaTypeOK',
           \A u \in Threads \ {t} :
               pc'[u] = pc[u] /\ want'[u] = want[u] /\ old'[u] = old[u],
           pc'[t] \in Waiting \union Trying => want'[t] > 0,
           pc'[t] = "trycas" => old'[t] >= want'[t],
           pc[t] # "post",
           count' <= count \/ pc'[t] = "post"
    PROVE  SemaLocal'
<1>1. SemaLocal /\ SchedInv
  BY DEF SemaInv
<1>2. state[t] # "blocked"
  <2>1. NoThread \notin Threads
    BY SchedAssumption DEF SchedAssumption
  <2> QED
    BY <1>1, <2>1, OnCpuRuns DEF OnCpu
<1>3. mode' = mode /\ state' = state /\ ident' = ident
  BY DEF vars
<1>4. SleepsHere'
  BY <1>1, <1>2, <1>3 DEF SemaLocal, SleepsHere
<1>5. Asked'
  BY <1>1 DEF SemaLocal, Asked
<1>6. NoLostWakeup'
  <2> SUFFICES ASSUME NEW u \in Threads, state'[u] = "blocked", count' >= want'[u]
               PROVE  \E v \in Threads : pc'[v] = "post"
    BY DEF NoLostWakeup
  <2>1. u # t /\ want'[u] = want[u] /\ state[u] = "blocked"
    BY <1>2, <1>3
  <2>2. CASE count' <= count
    <3>1. count \in Nat /\ count' \in Nat /\ want[u] \in Nat
      BY <1>1 DEF SemaLocal, SemaTypeOK
    <3>2. count >= want[u]
      BY <2>1, <2>2, <3>1
    <3>3. PICK v \in Threads : pc[v] = "post"
      BY <1>1, <2>1, <3>2 DEF SemaLocal, NoLostWakeup
    <3> QED
      BY <3>3
  <2> QED
    BY <2>2
<1> QED
  BY <1>4, <1>5, <1>6 DEF SemaLocal

\* What a function of sema.c leaves when it returns, or goes on.
LEMMA ReturnFacts ==
    ASSUME SemaTypeOK, NEW t \in Threads, Return(t)
    PROVE  /\ pc' \in [Threads -> Labels] /\ pc'[t] = "idle"
           /\ want' \in [Threads -> 0..MaxCount]
           /\ old' \in [Threads -> 0..MaxCount]
           /\ \A u \in Threads \ {t} :
                 pc'[u] = pc[u] /\ want'[u] = want[u] /\ old'[u] = old[u]
<1>1. 0 \in 0..MaxCount
  BY SemaAssumption DEF SemaAssumption
<1>2. "idle" \in Labels
  BY DEF Labels
<1> QED
  BY <1>1, <1>2 DEF SemaTypeOK, Return, Goto

LEMMA GotoFacts ==
    ASSUME SemaTypeOK, NEW t \in Threads, NEW label \in Labels, Goto(t, label)
    PROVE  /\ pc' \in [Threads -> Labels] /\ pc'[t] = label
           /\ \A u \in Threads \ {t} : pc'[u] = pc[u]
  BY DEF SemaTypeOK, Goto

LEMMA LabelFacts ==
    /\ {"idle", "post", "read", "decide", "tryread", "trycas"} = Labels
    /\ "idle" \notin Waiting \union Trying /\ "post" \notin Waiting \union Trying
  BY DEF Labels, Waiting, Trying

LEMMA CallStep ==
    ASSUME SemaInv, NEW t \in Threads, NEW n \in Needs, Call(t, n)
    PROVE  SemaLocal'
<1> USE SemaAssumption DEF SemaAssumption
<1>1. SemaTypeOK /\ n \in 1..MaxCount
  BY DEF SemaInv, SemaLocal
<1>2. PICK label \in {"read", "tryread"} : Goto(t, label)
  BY DEF Call
<1>3. /\ pc' \in [Threads -> Labels] /\ pc'[t] = label
      /\ \A u \in Threads \ {t} : pc'[u] = pc[u]
  BY <1>1, <1>2, LabelFacts, GotoFacts
<1>4. /\ want' \in [Threads -> 0..MaxCount] /\ want'[t] = n
      /\ \A u \in Threads \ {t} : want'[u] = want[u]
  <2>1. n \in 0..MaxCount
    BY <1>1
  <2> QED
    BY <1>1, <2>1 DEF Call, SemaTypeOK
<1>5. UNCHANGED vars /\ count' = count /\ old' = old
  BY DEF Call
<1>6. SemaTypeOK'
  BY <1>1, <1>3, <1>4, <1>5 DEF SemaTypeOK
<1>7. count' <= count /\ n > 0
  BY <1>1, <1>5 DEF SemaTypeOK
<1>8. OnCpu(t) /\ pc[t] = "idle" /\ pc'[t] # "trycas"
  BY <1>2, <1>3 DEF Call, At
<1> QED
  BY <1>3, <1>4, <1>5, <1>6, <1>7, <1>8, ThreadMoves

LEMMA ReadStep ==
    ASSUME SemaInv, NEW t \in Threads, Read(t) PROVE SemaLocal'
<1>1. SemaTypeOK /\ Asked
  BY DEF SemaInv, SemaLocal
<1>2. /\ pc' \in [Threads -> Labels] /\ pc'[t] = "decide"
      /\ \A u \in Threads \ {t} : pc'[u] = pc[u]
  BY <1>1, LabelFacts, GotoFacts DEF Read
<1>3. /\ old' \in [Threads -> 0..MaxCount]
      /\ \A u \in Threads \ {t} : old'[u] = old[u]
  BY <1>1 DEF Read, SemaTypeOK
<1>4. UNCHANGED vars /\ count' = count /\ want' = want
  BY DEF Read
<1>5. SemaTypeOK' /\ count' <= count
  BY <1>1, <1>2, <1>3, <1>4 DEF SemaTypeOK
<1>6. OnCpu(t) /\ pc[t] = "read" /\ want[t] > 0
  BY <1>1 DEF Read, At, Asked, Waiting
<1> QED
  BY <1>2, <1>3, <1>4, <1>5, <1>6, ThreadMoves

\* Swap, successful or not.
LEMMA SwapStep ==
    ASSUME SemaInv, NEW t \in Threads, Swap(t) PROVE SemaLocal'
<1>1. SemaTypeOK /\ Asked
  BY DEF SemaInv, SemaLocal
<1>2. OnCpu(t) /\ pc[t] = "decide" /\ want[t] > 0 /\ UNCHANGED vars
  BY <1>1 DEF Swap, At, Asked, Waiting
<1>3. CASE count = old[t]
  <2>1. count' = count - want[t] /\ Return(t) /\ Enough(t)
    BY <1>3 DEF Swap
  <2>2. count' \in 0..MaxCount /\ count' <= count
    BY <1>1, <1>3, <2>1, SemaAssumption
    DEF SemaTypeOK, SemaAssumption, Enough
  <2>3. SemaTypeOK'
    BY <1>1, <2>1, <2>2, ReturnFacts DEF SemaTypeOK
  <2> QED
    BY <1>1, <1>2, <2>1, <2>2, <2>3, ReturnFacts, LabelFacts, ThreadMoves
<1>4. CASE count # old[t]
  <2>1. UNCHANGED <<count, want, old>> /\ Goto(t, "read")
    BY <1>4 DEF Swap
  <2>2. /\ pc' \in [Threads -> Labels] /\ pc'[t] = "read"
        /\ \A u \in Threads \ {t} : pc'[u] = pc[u]
    BY <1>1, <2>1, LabelFacts, GotoFacts
  <2>3. SemaTypeOK' /\ count' <= count
    BY <1>1, <2>1, <2>2 DEF SemaTypeOK
  <2> QED
    BY <1>2, <2>1, <2>2, <2>3, ThreadMoves
<1> QED
  BY <1>3, <1>4

LEMMA TryReadStep ==
    ASSUME SemaInv, NEW t \in Threads, TryRead(t) PROVE SemaLocal'
<1>1. SemaTypeOK /\ Asked
  BY DEF SemaInv, SemaLocal
<1>2. /\ OnCpu(t) /\ pc[t] = "tryread" /\ want[t] > 0
      /\ UNCHANGED vars /\ count' = count
  BY <1>1 DEF TryRead, At, Asked, Trying
<1>3. CASE count < want[t]
  <2>1. Return(t)
    BY <1>3 DEF TryRead
  <2>2. SemaTypeOK' /\ count' <= count
    BY <1>1, <1>2, <2>1, ReturnFacts DEF SemaTypeOK
  <2> QED
    BY <1>1, <1>2, <2>1, <2>2, ReturnFacts, LabelFacts, ThreadMoves
<1>4. CASE ~(count < want[t])
  <2>1. /\ Goto(t, "trycas") /\ old' = [old EXCEPT ![t] = count]
        /\ want' = want
    BY <1>4 DEF TryRead
  <2>2. /\ pc' \in [Threads -> Labels] /\ pc'[t] = "trycas"
        /\ \A u \in Threads \ {t} : pc'[u] = pc[u]
    BY <1>1, <2>1, LabelFacts, GotoFacts
  <2>3. /\ old' \in [Threads -> 0..MaxCount] /\ old'[t] = count
        /\ \A u \in Threads \ {t} : old'[u] = old[u]
    BY <1>1, <2>1 DEF SemaTypeOK
  <2>4. SemaTypeOK' /\ count' <= count /\ old'[t] >= want'[t]
    BY <1>1, <1>2, <1>4, <2>1, <2>2, <2>3 DEF SemaTypeOK
  <2> QED
    BY <1>2, <2>1, <2>2, <2>3, <2>4, ThreadMoves
<1> QED
  BY <1>3, <1>4

LEMMA TrySwapStep ==
    ASSUME SemaInv, NEW t \in Threads, TrySwap(t) PROVE SemaLocal'
<1>1. SemaTypeOK /\ Asked
  BY DEF SemaInv, SemaLocal
<1>2. /\ OnCpu(t) /\ pc[t] = "trycas" /\ UNCHANGED vars /\ Return(t)
      /\ want[t] > 0 /\ old[t] >= want[t]
  BY <1>1 DEF TrySwap, At, Asked, Trying
<1>3. count' \in 0..MaxCount /\ count' <= count
  <2>1. count' = IF count = old[t] THEN count - want[t] ELSE count
    BY DEF TrySwap
  <2> QED
    BY <1>1, <1>2, <2>1, SemaAssumption DEF SemaTypeOK, SemaAssumption
<1>4. SemaTypeOK'
  BY <1>1, <1>2, <1>3, ReturnFacts DEF SemaTypeOK
<1> QED
  BY <1>1, <1>2, <1>3, <1>4, ReturnFacts, LabelFacts, ThreadMoves

\* The count grows, but the wakeup is on its way.
LEMMA AddStep ==
    ASSUME SemaInv, NEW t \in Threads, NEW n \in Posts, Add(t, n)
    PROVE  SemaLocal'
<1>1. SemaTypeOK
  BY DEF SemaInv, SemaLocal
<1>2. /\ OnCpu(t) /\ pc[t] = "idle" /\ Goto(t, "post")
      /\ UNCHANGED vars /\ want' = want /\ old' = old
  BY DEF Add, At
<1>3. /\ pc' \in [Threads -> Labels] /\ pc'[t] = "post"
      /\ \A u \in Threads \ {t} : pc'[u] = pc[u]
  BY <1>1, <1>2, LabelFacts, GotoFacts
<1>4. count' \in 0..MaxCount
  BY <1>1, SemaAssumption DEF Add, SemaTypeOK, SemaAssumption
<1>5. SemaTypeOK'
  BY <1>1, <1>2, <1>3, <1>4 DEF SemaTypeOK
<1> QED
  BY <1>2, <1>3, <1>5, LabelFacts, ThreadMoves

\* The wakeup leaves nobody asleep, so nobody sleeps in vain.
LEMMA PostStep ==
    ASSUME SemaInv, NEW t \in Threads, Post(t) PROVE SemaLocal'
<1>1. SemaTypeOK /\ Asked
  BY DEF SemaInv, SemaLocal
<1>2. HandlerMayRun /\ SysWakeup(sema) /\ Goto(t, "idle")
  BY DEF Post, Wakeup
<1>3. UNCHANGED <<count, want, old>>
  BY DEF Post
<1>4. /\ pc' \in [Threads -> Labels] /\ pc'[t] = "idle"
      /\ \A u \in Threads \ {t} : pc'[u] = pc[u]
  BY <1>1, <1>2, LabelFacts, GotoFacts
<1>5. SemaTypeOK'
  BY <1>1, <1>3, <1>4 DEF SemaTypeOK
<1>6. Asked'
  BY <1>1, <1>3, <1>4, LabelFacts DEF Asked
<1>7. SleepsHere' /\ NoLostWakeup'
  BY <1>2, AllWoken DEF SleepsHere, NoLostWakeup
<1> QED
  BY <1>5, <1>6, <1>7 DEF SemaLocal

LEMMA IrqPostStep ==
    ASSUME SemaInv, NEW n \in Posts, IrqPost(n) PROVE SemaLocal'
<1>1. SemaTypeOK /\ Asked /\ SleepsHere
  BY DEF SemaInv, SemaLocal
<1>2. UNCHANGED <<pc, want, old>>
  BY DEF IrqPost
<1>3. count' \in 0..MaxCount
  BY <1>1, SemaAssumption DEF IrqPost, SemaTypeOK, SemaAssumption
<1>4. SemaTypeOK' /\ Asked'
  BY <1>1, <1>2, <1>3 DEF SemaTypeOK, Asked
<1>5. \A t \in Threads : state'[t] # "blocked"
  <2>1. CASE mode = "boot" /\ UNCHANGED vars
    BY <1>1, <2>1 DEF SleepsHere, vars
  <2>2. CASE IrqWakeup(sema)
    BY <2>2, AllWoken DEF IrqWakeup
  <2> QED
    BY <2>1, <2>2 DEF IrqPost
<1>6. SleepsHere' /\ NoLostWakeup'
  BY <1>5 DEF SleepsHere, NoLostWakeup
<1> QED
  BY <1>4, <1>6 DEF SemaLocal

\* A thread goes to sleep only while the count is the one it saw, which does
\* not cover what it wants; otherwise it looks again.
LEMMA SleepStep ==
    ASSUME SemaInv, NEW t \in Threads, Sleep(t) PROVE SemaLocal'
<1>1. SemaTypeOK /\ Asked /\ SleepsHere /\ NoLostWakeup /\ SchedInv
  BY DEF SemaInv, SemaLocal
<1>2. /\ OnCpu(t) /\ pc[t] = "decide" /\ want[t] > 0 /\ old[t] < want[t]
      /\ UNCHANGED <<count, want, old>> /\ Goto(t, "read")
      /\ WaitCond(t, sema, StillOld(t)) /\ mode = "threads" /\ mode' = mode
  BY <1>1 DEF Sleep, At, Asked, Waiting, Enough, SemaTypeOK, WaitCond,
              OnCpu, HandlerMayRun
<1>3. /\ pc' \in [Threads -> Labels] /\ pc'[t] = "read"
      /\ \A u \in Threads \ {t} : pc'[u] = pc[u]
  BY <1>1, <1>2, LabelFacts, GotoFacts
<1>4. SemaTypeOK'
  BY <1>1, <1>2, <1>3 DEF SemaTypeOK
<1>5. Asked'
  BY <1>1, <1>2, <1>3 DEF Asked
<1>6. /\ \A u \in Threads \ {t} : state'[u] = state[u] /\ ident'[u] = ident[u]
      /\ state'[t] = "blocked" => ident'[t] = sema /\ count = old[t]
  <2>1. /\ state \in [Threads -> States] /\ ident \in [Threads -> Idents]
    BY <1>1 DEF SchedInv, TypeOK
  <2>2. CASE StillOld(t)
    BY <1>2, <2>1, <2>2 DEF WaitCond, StillOld
  <2>3. CASE ~StillOld(t)
    <3>1. state' = state /\ ident' = ident
      BY <1>2, <2>3 DEF WaitCond
    <3>2. state[t] # "blocked"
      BY <1>1, <1>2 DEF SleepsHere
    <3> QED
      BY <3>1, <3>2
  <2> QED
    BY <2>2, <2>3
<1>7. SleepsHere'
  BY <1>1, <1>2, <1>3, <1>6 DEF SleepsHere
<1>8. NoLostWakeup'
  <2> SUFFICES ASSUME NEW u \in Threads, state'[u] = "blocked", count' >= want'[u]
               PROVE  \E v \in Threads : pc'[v] = "post"
    BY DEF NoLostWakeup
  <2>1. count >= want[u]
    BY <1>2
  <2>2. u # t
    BY <1>1, <1>2, <1>6, <2>1 DEF SemaTypeOK
  <2>3. PICK v \in Threads : pc[v] = "post"
    BY <1>1, <1>6, <2>1, <2>2 DEF NoLostWakeup
  <2> QED
    BY <1>2, <1>3, <2>3
<1> QED
  BY <1>4, <1>5, <1>7, <1>8 DEF SemaLocal

\* Every step preserves the invariant.
LEMMA SemaStepInv == SemaInv /\ [SemaNext]_semaVars => SemaInv'
<1> SUFFICES ASSUME SemaInv, [SemaNext]_semaVars PROVE SemaInv'
  OBVIOUS
<1>1. SchedInv'
  BY StepInv, SemaStepsSched DEF SemaInv
<1>2. ASSUME Other \/ Reschedule PROVE SemaLocal'
  BY <1>2, SchedulerOnly
<1>3. ASSUME NEW t \in Threads, Proceed(t) PROVE SemaLocal'
  BY <1>3, ReadStep, SwapStep, SleepStep, TryReadStep, TrySwapStep, PostStep
  DEF Proceed
<1>4. ASSUME NEW t \in Threads, NEW n \in Needs, Call(t, n) PROVE SemaLocal'
  BY <1>4, CallStep
<1>5. ASSUME NEW t \in Threads, NEW n \in Posts, Add(t, n) PROVE SemaLocal'
  BY <1>5, AddStep
<1>6. ASSUME NEW n \in Posts, IrqPost(n) PROVE SemaLocal'
  BY <1>6, IrqPostStep
<1>7. ASSUME UNCHANGED semaVars PROVE SemaLocal'
  BY <1>7 DEF semaVars, semaOnly, vars, SemaInv, SemaLocal, SemaTypeOK,
              SleepsHere, Asked, NoLostWakeup
<1>8. SemaLocal'
  BY <1>2, <1>3, <1>4, <1>5, <1>6, <1>7 DEF SemaNext
<1> QED
  BY <1>1, <1>8 DEF SemaInv

LEMMA SemaInvariant == SemaSpec => []SemaInv
<1> QED
  BY SemaInitInv, SemaStepInv, PTL DEF SemaSpec

\* Type correctness: in particular the count never goes below zero nor beyond
\* what was posted.
THEOREM SemaTypeCorrect == SemaSpec => []SemaTypeOK
<1> QED
  BY SemaInvariant, SemaInvImplies, PTL

\* No wakeup is lost: nobody sleeps on a count that covers his request unless
\* a wakeup is about to be issued.
THEOREM NoWakeupIsLost == SemaSpec => []NoLostWakeup
<1> QED
  BY SemaInvariant, SemaInvImplies, PTL

\* The code of sema.c is a program of the scheduler, so that everything proved
\* of the scheduler holds here as well.
THEOREM SemaIsAProgram == SemaSpec => Spec
<1>1. SemaInit => Init
  BY DEF SemaInit
<1> QED
  BY <1>1, SemaStepsSched, PTL DEF SemaSpec, Spec

-----------------------------------------------------------------------------
(* sema.c implements an atomic counting semaphore                          *)

\* What a thread demands of the abstract semaphore.
Demand == [t \in Threads |-> IF pc[t] \in Waiting THEN want[t] ELSE 0]

LEMMA DemandStays ==
    ASSUME \A t \in Threads :
               /\ pc[t] \in Waiting <=> pc'[t] \in Waiting
               /\ pc[t] \in Waiting => want'[t] = want[t]
    PROVE  Demand' = Demand
  BY DEF Demand

LEMMA DemandChanges ==
    ASSUME NEW t \in Threads, NEW n,
           \A u \in Threads \ {t} : pc'[u] = pc[u] /\ want'[u] = want[u],
           n = IF pc'[t] \in Waiting THEN want'[t] ELSE 0
    PROVE  Demand' = [Demand EXCEPT ![t] = n]
  BY DEF Demand

LEMMA AbsInit == SemaInit => Abs!Init
<1> SUFFICES ASSUME SemaInit PROVE Abs!Init
  OBVIOUS
<1>1. count = 0 /\ Demand = [t \in Threads |-> 0]
  BY DEF SemaInit, Demand, Waiting
<1> QED
  BY <1>1 DEF Abs!Init, Demand

\* The abstract step of each step of sema.c.
LEMMA AbsStep ==
    ASSUME SemaInv, [SemaNext]_semaVars PROVE [Abs!Next]_(Abs!vars)
<1> USE SemaAssumption DEF SemaAssumption
<1>1. SemaTypeOK /\ Asked /\ SleepsHere
  BY DEF SemaInv, SemaLocal
<1>2. ASSUME count' = count, Demand' = Demand PROVE [Abs!Next]_(Abs!vars)
  BY <1>2 DEF Abs!vars, Demand
<1>3. ASSUME UNCHANGED semaOnly PROVE [Abs!Next]_(Abs!vars)
  BY <1>2, <1>3 DEF semaOnly, Demand
<1>4. ASSUME NEW t \in Threads, NEW n \in Needs, Call(t, n)
      PROVE  [Abs!Next]_(Abs!vars)
  <2>1. PICK label \in {"read", "tryread"} : Goto(t, label)
    BY <1>4 DEF Call
  <2>2. /\ count' = count /\ want' = [want EXCEPT ![t] = n] /\ pc[t] = "idle"
        /\ pc' = [pc EXCEPT ![t] = label]
    BY <1>4, <2>1 DEF Call, At, Goto
  <2>3. /\ \A u \in Threads \ {t} : pc'[u] = pc[u] /\ want'[u] = want[u]
        /\ pc'[t] = label /\ want'[t] = n
    BY <1>1, <2>2 DEF SemaTypeOK
  <2>4. CASE label = "read"
    <3>1. Demand' = [Demand EXCEPT ![t] = n]
      BY <2>3, <2>4, DemandChanges DEF Waiting
    <3>2. Demand[t] = 0
      BY <2>2 DEF Demand, Waiting
    <3>3. Abs!Request(t, n)
      BY <2>2, <3>1, <3>2 DEF Abs!Request, Demand
    <3> QED
      BY <3>3 DEF Abs!Next, Abs!Amounts
  <2>5. CASE label = "tryread"
    <3>1. Demand' = Demand
      <4>1. \A u \in Threads : pc[u] \in Waiting <=> pc'[u] \in Waiting
        BY <2>2, <2>3, <2>5 DEF Waiting
      <4>2. \A u \in Threads : pc[u] \in Waiting => want'[u] = want[u]
        BY <2>2, <2>3 DEF Waiting
      <4> QED
        BY <4>1, <4>2, DemandStays
    <3> QED
      BY <1>2, <2>2, <3>1
  <2> QED
    BY <2>4, <2>5
<1>5. ASSUME NEW t \in Threads, Swap(t) PROVE [Abs!Next]_(Abs!vars)
  <2>1. pc[t] = "decide" /\ Enough(t) /\ want[t] > 0
    BY <1>1, <1>5 DEF Swap, At, Asked, Waiting
  <2>2. CASE count = old[t]
    <3>1. count' = count - want[t] /\ Return(t)
      BY <1>5, <2>2 DEF Swap
    <3>2. Demand' = [Demand EXCEPT ![t] = 0]
      BY <1>1, <3>1, ReturnFacts, DemandChanges DEF Waiting
    <3>3. Demand[t] = want[t] /\ count >= want[t]
      BY <2>1, <2>2 DEF Demand, Waiting, Enough
    <3>4. Abs!Grant(t)
      BY <2>1, <3>1, <3>2, <3>3 DEF Abs!Grant, Demand
    <3> QED
      BY <3>4 DEF Abs!Next
  <2>3. CASE count # old[t]
    <3>1. count' = count /\ want' = want /\ pc' = [pc EXCEPT ![t] = "read"]
      BY <1>5, <2>3 DEF Swap, Goto
    <3>2. Demand' = Demand
      BY <1>1, <2>1, <3>1, DemandStays DEF Waiting, SemaTypeOK
    <3> QED
      BY <1>2, <3>1, <3>2
  <2> QED
    BY <2>2, <2>3
<1>6. ASSUME NEW t \in Threads, TrySwap(t) PROVE [Abs!Next]_(Abs!vars)
  <2>1. pc[t] = "trycas" /\ want[t] > 0 /\ old[t] >= want[t] /\ Return(t)
    BY <1>1, <1>6 DEF TrySwap, At, Asked, Trying
  <2>2. Demand' = Demand
    BY <1>1, <2>1, ReturnFacts, DemandStays DEF Waiting
  <2>3. CASE count = old[t]
    <3>1. count' = count - want[t] /\ want[t] \in 1..MaxCount
      BY <1>1, <1>6, <2>1, <2>3 DEF TrySwap, SemaTypeOK
    <3>2. Abs!Take(want[t])
      BY <2>1, <2>2, <2>3, <3>1 DEF Abs!Take, Demand
    <3> QED
      BY <3>1, <3>2 DEF Abs!Next, Abs!Amounts
  <2>4. CASE count # old[t]
    BY <1>2, <1>6, <2>2, <2>4 DEF TrySwap
  <2> QED
    BY <2>3, <2>4
\* The steps between them show nothing.
<1>7. ASSUME NEW t \in Threads,
             Read(t) \/ Sleep(t) \/ TryRead(t) \/ Post(t)
      PROVE  [Abs!Next]_(Abs!vars)
  <2>1. count' = count
    BY <1>7 DEF Read, Sleep, TryRead, Post
  <2>2. CASE Read(t) \/ Sleep(t) \/ Post(t)
    <3>1. /\ want' = want
          /\ \/ pc[t] = "read" /\ pc' = [pc EXCEPT ![t] = "decide"]
             \/ pc[t] = "decide" /\ pc' = [pc EXCEPT ![t] = "read"]
             \/ pc[t] = "post" /\ pc' = [pc EXCEPT ![t] = "idle"]
      BY <2>2 DEF Read, Sleep, Post, At, Goto
    <3>2. Demand' = Demand
      BY <1>1, <3>1, DemandStays DEF Waiting, SemaTypeOK
    <3> QED
      BY <1>2, <2>1, <3>2
  <2>3. CASE TryRead(t)
    <3>1. pc[t] = "tryread"
      BY <2>3 DEF TryRead, At
    <3>2. /\ \A u \in Threads \ {t} : pc'[u] = pc[u] /\ want'[u] = want[u]
          /\ pc'[t] \in {"idle", "trycas"}
      <4>1. CASE Return(t)
        BY <1>1, <4>1, ReturnFacts
      <4>2. CASE Goto(t, "trycas") /\ want' = want
        BY <1>1, <4>2, LabelFacts, GotoFacts
      <4> QED
        BY <2>3, <4>1, <4>2 DEF TryRead
    <3>3. Demand' = Demand
      BY <3>1, <3>2, DemandStays DEF Waiting
    <3> QED
      BY <1>2, <2>1, <3>3
  <2> QED
    BY <1>7, <2>2, <2>3
<1>8. ASSUME NEW t \in Threads, NEW n \in Posts, Add(t, n)
      PROVE  [Abs!Next]_(Abs!vars)
  <2>1. /\ pc[t] = "idle" /\ pc' = [pc EXCEPT ![t] = "post"]
        /\ want' = want /\ count' = count + n
    BY <1>8 DEF Add, At, Goto
  <2>2. Demand' = Demand
    BY <1>1, <2>1, DemandStays DEF Waiting, SemaTypeOK
  <2>3. Abs!Release(n)
    BY <2>1, <2>2 DEF Abs!Release, Demand
  <2> QED
    BY <2>3 DEF Abs!Next, Abs!Amounts
<1>9. ASSUME NEW n \in Posts, IrqPost(n) PROVE [Abs!Next]_(Abs!vars)
  <2>1. Abs!Release(n)
    BY <1>9 DEF IrqPost, Abs!Release
  <2> QED
    BY <2>1 DEF Abs!Next, Abs!Amounts
<1>10. ASSUME Other \/ Reschedule \/ UNCHANGED semaVars
       PROVE  [Abs!Next]_(Abs!vars)
  BY <1>3, <1>10 DEF Other, Reschedule, semaVars
<1> QED
  BY <1>4, <1>5, <1>6, <1>7, <1>8, <1>9, <1>10 DEF SemaNext, Proceed

\* Whatever is interrupted where, the count behaves as one that is added to and
\* subtracted from atomically, and no request is granted twice or without
\* cover.
THEOREM SemaIsAtomic == SemaSpec => ImplementsSemaphore
<1> QED
  BY SemaInvariant, AbsInit, AbsStep, PTL
  DEF SemaSpec, ImplementsSemaphore, Abs!Spec
=============================================================================
