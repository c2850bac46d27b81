---------------------------- MODULE SchedProofs -----------------------------
(***************************************************************************)
(* Proofs about Sched, for any set of threads, channels and any slice.     *)
(***************************************************************************)
EXTENDS Sched, QueueLemmas

\* The properties follow from the inductive invariant.
LEMMA InvImplies == SchedInv => TypeOK /\ QueuesSound /\ NoThreadLost
<1> SUFFICES ASSUME SchedInv PROVE TypeOK /\ QueuesSound /\ NoThreadLost
  OBVIOUS
<1> USE SchedAssumption DEF SchedAssumption
<1>1. TypeOK /\ QueuesExact /\ BootQuiet
  BY DEF SchedInv
<1>2. QueuesSound
  BY <1>1 DEF QueuesSound, QueuesExact
<1>3. NoThreadLost
  <2> SUFFICES ASSUME NEW t \in Threads
               PROVE  IF t = curthread
                      THEN state[t] = "running" \/ (state[t] = "blocked" /\ pendsv)
                      ELSE /\ state[t] # "running"
                           /\ state[t] = "runq" => Contains(runq[prio[t]], t)
                           /\ state[t] = "blocked" => Contains(blockedq, t)
    BY DEF NoThreadLost
  <2>1. prio[t] \in Prios
    BY <1>1 DEF TypeOK
  <2> QED
    BY <1>1, <2>1 DEF QueuesExact
<1> QED
  BY <1>1, <1>2, <1>3

\* Nothing is on a queue and nothing runs at reset.
LEMMA InitInv == Init => SchedInv
<1> SUFFICES ASSUME Init PROVE SchedInv
  OBVIOUS
<1> USE SchedAssumption DEF SchedAssumption
<1>1. TypeOK
  <2>1. <<>> \in Seq(Threads) /\ NORMAL \in Prios /\ 0 \in Nat
    BY DEF Prios, NORMAL, REALTIME, PRIO_MAX, BESTEFFORT
  <2> QED
    BY <2>1 DEF Init, TypeOK, States
<1>2. QueuesExact
  <2>1. \A p \in Prios : runq[p] = <<>>
    BY DEF Init
  <2> QED
    BY <2>1, EmptyQueue DEF Init, QueuesExact
<1>3. BootQuiet
  BY DEF Init, BootQuiet
<1> QED
  BY <1>1, <1>2, <1>3 DEF SchedInv

-----------------------------------------------------------------------------
(* The steps                                                               *)

\* A new thread goes to the tail of the queue of its priority.
LEMMA EnqueueStep ==
    ASSUME SchedInv, NEW u \in Threads, Enqueue(u),
           slice' \in [Threads -> Nat], mode' = mode
    PROVE  SchedInv'
<1> USE SchedAssumption DEF SchedAssumption
<1>1. TypeOK /\ QueuesExact /\ BootQuiet
  BY DEF SchedInv
<1>2. NORMAL \in Prios /\ runq[NORMAL] \in Seq(Threads)
  BY <1>1 DEF TypeOK, Prios, NORMAL, REALTIME, PRIO_MAX, BESTEFFORT
<1>3. /\ Append(runq[NORMAL], u) \in Seq(Threads)
      /\ \A t : Contains(Append(runq[NORMAL], u), t)
                  <=> (Contains(runq[NORMAL], t) \/ t = u)
  BY <1>2, AppendContains, AppendProperties
<1>4. state[u] = "invalid" /\ u # initial
  BY DEF Enqueue
<1>5. ~Contains(runq[NORMAL], u)
  BY <1>1, <1>2, <1>4 DEF QueuesExact
<1>6. NoDuplicates(Append(runq[NORMAL], u))
  BY <1>1, <1>2, <1>5, AppendNoDuplicates DEF QueuesExact
<1>7. TypeOK'
  BY <1>1, <1>2, <1>3 DEF Enqueue, TypeOK, States
<1>8. /\ \A p \in Prios : runq'[p] = IF p = NORMAL THEN Append(runq[p], u)
                                     ELSE runq[p]
      /\ \A t \in Threads : state'[t] = IF t = u THEN "runq" ELSE state[t]
      /\ \A t \in Threads : prio'[t] = IF t = u THEN NORMAL ELSE prio[t]
      /\ UNCHANGED <<curthread, blockedq, pendsv, systick>>
  BY <1>1, <1>2 DEF Enqueue, TypeOK
<1>9. \A p \in Prios : NoDuplicates(runq'[p])
  BY <1>1, <1>6, <1>8 DEF QueuesExact
<1>10. \A p \in Prios, t \in Threads :
          Contains(runq'[p], t) <=> (state'[t] = "runq" /\ prio'[t] = p)
  BY <1>1, <1>3, <1>4, <1>8 DEF QueuesExact
<1>11. QueuesExact'
  <2>1. u # curthread
    BY <1>1, <1>4 DEF QueuesExact
  <2>2. NoDuplicates(blockedq')
    BY <1>1, <1>8 DEF QueuesExact
  <2>3. \A t \in Threads :
           Contains(blockedq', t) <=> (state'[t] = "blocked" /\ t # curthread')
    BY <1>1, <1>4, <1>8 DEF QueuesExact
  <2>4. \A t \in Threads : state'[t] = "running" => t = curthread'
    BY <1>1, <1>8 DEF QueuesExact
  <2>5. curthread' # NoThread =>
           \/ state'[curthread'] = "running"
           \/ state'[curthread'] = "blocked" /\ pendsv'
    BY <1>1, <1>8, <2>1 DEF QueuesExact, TypeOK
  <2> QED
    BY <1>9, <1>10, <2>2, <2>3, <2>4, <2>5 DEF QueuesExact
<1>12. BootQuiet'
  BY <1>1, <1>4, <1>8 DEF BootQuiet
<1> QED
  BY <1>7, <1>11, <1>12 DEF SchedInv

\* The handlers that only set a flag, a slice or a priority of curthread,
\* whose thread is on no queue.
LEMMA ForfeitStep ==
    ASSUME SchedInv, HandlerMayRun, Forfeit,
           UNCHANGED <<mode, curthread, runq, blockedq, state, ident, prio,
                       systick, fresh>>
    PROVE  SchedInv'
<1> USE SchedAssumption DEF SchedAssumption
<1>1. slice' \in [Threads -> Nat]
  <2>1. slice \in [Threads -> Nat] /\ 0 \in Nat
    BY DEF SchedInv, TypeOK
  <2> QED
    BY <2>1 DEF Forfeit
<1>2. pendsv' = TRUE
  BY DEF Forfeit
<1> QED
  BY <1>1, <1>2 DEF SchedInv, TypeOK, QueuesExact, BootQuiet, HandlerMayRun

\* sys_wait_cond: a thread that blocks stays off the queues until PendSV.
LEMMA WaitCondStep ==
    ASSUME SchedInv, NEW t \in Threads, NEW id \in Idents,
           NEW unchanged \in BOOLEAN, WaitCond(t, id, unchanged)
    PROVE  SchedInv'
<1> USE SchedAssumption DEF SchedAssumption
<1>1. TypeOK /\ QueuesExact /\ BootQuiet /\ HandlerMayRun /\ curthread = t
  BY DEF SchedInv, WaitCond
<1>2. CASE ~unchanged
  BY <1>1, <1>2
     DEF SchedInv, TypeOK, QueuesExact, BootQuiet, WaitCond
<1>3. CASE unchanged
  <2>1. TimeLeft \subseteq Nat
    BY <1>1 DEF TimeLeft, TypeOK
  <2>2. /\ \A v \in Threads : state'[v] = IF v = t THEN "blocked" ELSE state[v]
        /\ ident' \in [Threads -> Idents] /\ state' \in [Threads -> States]
        /\ slice' \in [Threads -> Nat] /\ pendsv'
        /\ UNCHANGED <<mode, curthread, runq, blockedq, prio, systick, fresh>>
    <3>1. /\ ident' = [ident EXCEPT ![t] = id]
          /\ state' = [state EXCEPT ![t] = "blocked"]
          /\ pendsv' = TRUE
          /\ UNCHANGED <<mode, curthread, runq, blockedq, prio, systick, fresh>>
      BY <1>3 DEF WaitCond
    <3>2. PICK left \in TimeLeft : slice' = [slice EXCEPT ![t] = left]
      BY <1>3 DEF WaitCond
    <3>3. slice' \in [Threads -> Nat]
      BY <1>1, <2>1, <3>2 DEF TypeOK
    <3>4. /\ ident' \in [Threads -> Idents] /\ state' \in [Threads -> States]
          /\ \A v \in Threads : state'[v] = IF v = t THEN "blocked" ELSE state[v]
      BY <1>1, <3>1 DEF TypeOK, States
    <3> QED
      BY <3>1, <3>3, <3>4
  <2>3. TypeOK'
    BY <1>1, <2>2 DEF TypeOK
  <2>4. state[t] = "running"
    BY <1>1 DEF QueuesExact, HandlerMayRun
  <2>5. QueuesExact'
    BY <1>1, <2>2, <2>4 DEF QueuesExact
  <2>6. BootQuiet'
    BY <1>1, <2>2 DEF BootQuiet, HandlerMayRun
  <2> QED
    BY <2>3, <2>5, <2>6 DEF SchedInv
<1> QED
  BY <1>2, <1>3

\* sys_setprio changes the priority of curthread, which is on no queue.
LEMMA SetPrioStep ==
    ASSUME SchedInv, NEW t \in Threads, NEW p \in PrioArgs, SetPrio(t, p)
    PROVE  SchedInv'
<1> USE SchedAssumption DEF SchedAssumption
<1>1. TypeOK /\ QueuesExact /\ BootQuiet /\ HandlerMayRun /\ curthread = t
  BY DEF SchedInv, SetPrio
<1>2. CASE p > PRIO_MAX \/ prio[t] = p
  BY <1>1, <1>2 DEF SchedInv, TypeOK, QueuesExact, BootQuiet, SetPrio
<1>3. CASE ~(p > PRIO_MAX \/ prio[t] = p)
  <2>1. p \in Prios
    BY <1>3 DEF Prios, REALTIME, PRIO_MAX, BESTEFFORT
  <2>2. /\ \A v \in Threads : prio'[v] = IF v = t THEN p ELSE prio[v]
        /\ prio' \in [Threads -> Prios] /\ pendsv'
        /\ UNCHANGED <<mode, curthread, runq, blockedq, state, ident, slice,
                       systick, fresh>>
    BY <1>1, <1>3, <2>1 DEF SetPrio, TypeOK
  <2>3. TypeOK'
    BY <1>1, <2>2 DEF TypeOK
  <2>4. state[t] = "running"
    BY <1>1 DEF QueuesExact, HandlerMayRun
  <2>5. QueuesExact'
    BY <1>1, <2>2, <2>4 DEF QueuesExact
  <2>6. BootQuiet'
    BY <1>1, <2>2 DEF BootQuiet, HandlerMayRun
  <2> QED
    BY <2>3, <2>5, <2>6 DEF SchedInv
<1> QED
  BY <1>2, <1>3

\* The queues after a wakeup hold exactly the threads that were on them or
\* moved to them.
LEMMA RefillFacts ==
    ASSUME SchedInv, NEW p \in Prios, NEW id \in Idents
    PROVE  LET woken == Sleepers(id)
               q == Refill(p, woken)
           IN /\ q \in Seq(Threads)
              /\ NoDuplicates(q)
              /\ \A t \in Threads :
                    Contains(q, t) <=> \/ state[t] = "runq" /\ prio[t] = p
                                       \/ t \in woken /\ prio[t] = p
<1> DEFINE woken == Sleepers(id)
           mine == {t \in woken : prio[t] = p}
           early == {t \in mine : slice[t] # 0}
           late == {t \in mine : slice[t] = 0}
           head == Reverse(Keep(blockedq, early))
           tail == Keep(blockedq, late)
<1>1. TypeOK /\ QueuesExact
  BY DEF SchedInv
<1>2. blockedq \in Seq(Threads) /\ runq[p] \in Seq(Threads)
      /\ NoDuplicates(blockedq) /\ NoDuplicates(runq[p])
  BY <1>1 DEF TypeOK, QueuesExact
<1>3. /\ Keep(blockedq, early) \in Seq(Threads)
      /\ \A t : Contains(Keep(blockedq, early), t)
                  <=> (Contains(blockedq, t) /\ t \in early)
      /\ NoDuplicates(Keep(blockedq, early))
  <2> HIDE DEF early
  <2> QED
    BY <1>2, KeepFacts
<1>4. /\ tail \in Seq(Threads)
      /\ \A t : Contains(tail, t) <=> (Contains(blockedq, t) /\ t \in late)
      /\ NoDuplicates(tail)
  <2> HIDE DEF late
  <2> QED
    BY <1>2, KeepFacts
<1>5. /\ head \in Seq(Threads)
      /\ \A t : Contains(head, t) <=> (Contains(blockedq, t) /\ t \in early)
      /\ NoDuplicates(head)
  <2> HIDE DEF early
  <2> QED
    BY <1>3, ReverseFacts
<1>6. \A t : Contains(head, t) => t \in Threads /\ state[t] = "blocked" /\ slice[t] # 0
  <2> HIDE DEF head
  <2> QED
    BY <1>1, <1>5 DEF Sleepers, QueuesExact
<1>7. \A t : Contains(tail, t) => t \in Threads /\ state[t] = "blocked" /\ slice[t] = 0
  <2> HIDE DEF tail
  <2> QED
    BY <1>1, <1>4 DEF Sleepers, QueuesExact
<1>8. \A t : Contains(runq[p], t) => t \in Threads /\ state[t] = "runq"
  <2> SUFFICES ASSUME NEW t, Contains(runq[p], t) PROVE t \in Threads
    BY <1>1 DEF QueuesExact
  <2> QED
    BY <1>2, ElementOfSeq DEF Contains
<1> HIDE DEF head, tail
<1> DEFINE front == head \o runq[p]
<1>9. /\ front \in Seq(Threads)
      /\ \A t : Contains(front, t) <=> (Contains(head, t) \/ Contains(runq[p], t))
      /\ NoDuplicates(front)
  BY <1>2, <1>5, <1>6, <1>8, ConcatProperties, ConcatContains,
     ConcatNoDuplicates
<1> HIDE DEF front
<1>10. /\ front \o tail \in Seq(Threads)
       /\ \A t : Contains(front \o tail, t) <=> (Contains(front, t) \/ Contains(tail, t))
       /\ NoDuplicates(front \o tail)
  BY <1>4, <1>6, <1>7, <1>8, <1>9, ConcatProperties, ConcatContains,
     ConcatNoDuplicates
<1>11. Refill(p, woken) = front \o tail
  BY DEF Refill, front, head, tail
<1>12. ASSUME NEW t \in Threads
       PROVE  Contains(front \o tail, t) <=> \/ state[t] = "runq" /\ prio[t] = p
                                             \/ t \in woken /\ prio[t] = p
  <2>1. Contains(front \o tail, t)
          <=> \/ Contains(blockedq, t) /\ t \in early
              \/ Contains(runq[p], t)
              \/ Contains(blockedq, t) /\ t \in late
    BY <1>4, <1>5, <1>9, <1>10
  <2>2. (t \in early \/ t \in late) <=> (t \in woken /\ prio[t] = p)
    OBVIOUS
  <2>3. t \in woken => Contains(blockedq, t)
    BY DEF Sleepers
  <2> QED
    BY <1>1, <2>1, <2>2, <2>3 DEF QueuesExact
<1> QED
  BY <1>10, <1>11, <1>12

\* sys_wakeup moves every sleeper of a channel to its run queue, once.
LEMMA SysWakeupStep ==
    ASSUME SchedInv, HandlerMayRun, NEW id \in Idents, SysWakeup(id)
    PROVE  SchedInv'
<1> USE SchedAssumption DEF SchedAssumption
<1> DEFINE woken == Sleepers(id)
<1>1. TypeOK /\ QueuesExact /\ BootQuiet
  BY DEF SchedInv
<1>2. woken \subseteq Threads /\ \A t \in woken : Contains(blockedq, t)
  BY DEF Sleepers
<1>3. /\ blockedq' = Keep(blockedq, Threads \ woken)
      /\ \A t \in Threads :
            state'[t] = IF t \in woken THEN "runq" ELSE state[t]
      /\ state' \in [Threads -> States]
      /\ pendsv' \in BOOLEAN
      /\ UNCHANGED <<mode, curthread, ident, slice, prio, systick, fresh>>
  BY <1>1 DEF SysWakeup, TypeOK, States
<1>4. runq' = [p \in Prios |-> Refill(p, woken)]
  BY DEF SysWakeup
<1>5. /\ blockedq' \in Seq(Threads)
      /\ \A t : Contains(blockedq', t)
                  <=> (Contains(blockedq, t) /\ t \in Threads \ woken)
      /\ NoDuplicates(blockedq')
  <2> HIDE DEF woken
  <2> QED
    BY <1>1, <1>3, KeepFacts DEF TypeOK, QueuesExact
<1>6. \A p \in Prios :
         /\ runq'[p] \in Seq(Threads)
         /\ NoDuplicates(runq'[p])
         /\ \A t \in Threads :
               Contains(runq'[p], t) <=> \/ state[t] = "runq" /\ prio[t] = p
                                         \/ t \in woken /\ prio[t] = p
  BY <1>4, RefillFacts
<1>7. TypeOK'
  <2>1. runq' \in [Prios -> Seq(Threads)]
    BY <1>4, <1>6
  <2> QED
    BY <1>1, <1>3, <1>5, <2>1 DEF TypeOK
<1>8. \A t \in woken : state[t] = "blocked" /\ t # curthread
  BY <1>1, <1>2 DEF QueuesExact
<1> HIDE DEF woken
<1>9. QueuesExact'
  <2>1. \A t \in Threads :
           Contains(blockedq', t) <=> (state'[t] = "blocked" /\ t # curthread')
    BY <1>1, <1>3, <1>5, <1>8 DEF QueuesExact
  <2>2. \A p \in Prios, t \in Threads :
           Contains(runq'[p], t) <=> (state'[t] = "runq" /\ prio'[t] = p)
    BY <1>3, <1>6, <1>8
  <2>3. \A t \in Threads : state'[t] = "running" => t = curthread'
    BY <1>1, <1>3 DEF QueuesExact
  <2>4. curthread' # NoThread => state'[curthread'] = "running"
    BY <1>1, <1>3, <1>8 DEF QueuesExact, TypeOK, HandlerMayRun
  <2> QED
    BY <1>5, <1>6, <2>1, <2>2, <2>3, <2>4 DEF QueuesExact
<1>10. BootQuiet'
  BY <1>3 DEF HandlerMayRun, BootQuiet
<1> QED
  BY <1>7, <1>9, <1>10 DEF SchedInv

-----------------------------------------------------------------------------
(* PendSV                                                                  *)

\* Once scheduler() has put curthread back, every thread is on the queue of
\* its state and nobody is running.
LEMMA PutBack ==
    ASSUME SchedInv
    PROVE  /\ RunqBack \in [Prios -> Seq(Threads)]
           /\ BlockedBack \in Seq(Threads)
           /\ StateBack \in [Threads -> States]
           /\ NoDuplicates(BlockedBack)
           /\ \A p \in Prios : NoDuplicates(RunqBack[p])
           /\ \A t \in Threads : /\ Contains(BlockedBack, t) <=> StateBack[t] = "blocked"
                                 /\ StateBack[t] # "running"
           /\ \A p \in Prios, t \in Threads :
                 Contains(RunqBack[p], t) <=> (StateBack[t] = "runq" /\ prio[t] = p)
<1> USE SchedAssumption DEF SchedAssumption
<1> DEFINE c == curthread
<1>1. TypeOK /\ QueuesExact
  BY DEF SchedInv
<1>2. CASE c = NoThread
  <2>1. RunqBack = runq /\ BlockedBack = blockedq /\ StateBack = state
    BY <1>2 DEF RunqBack, BlockedBack, StateBack, Displaced, Sleeping
  <2>2. \A t \in Threads : t # curthread
    BY <1>2
  <2> QED
    BY <1>1, <2>1, <2>2 DEF TypeOK, QueuesExact
<1>3. CASE c # NoThread /\ state[c] = "running"
  <2>1. c \in Threads /\ prio[c] \in Prios /\ runq[prio[c]] \in Seq(Threads)
    BY <1>1, <1>3 DEF TypeOK
  <2> DEFINE q == Append(runq[prio[c]], c)
  <2>2. /\ RunqBack = [runq EXCEPT ![prio[c]] = q]
        /\ BlockedBack = blockedq
        /\ StateBack = [state EXCEPT ![c] = "runq"]
    BY <1>3 DEF RunqBack, BlockedBack, StateBack, Displaced, Sleeping
  <2>3. /\ q \in Seq(Threads)
        /\ \A t : Contains(q, t) <=> (Contains(runq[prio[c]], t) \/ t = c)
    BY <2>1, AppendProperties, AppendContains
  <2>4. ~Contains(runq[prio[c]], c)
    BY <1>1, <1>3, <2>1 DEF QueuesExact
  <2>5. NoDuplicates(q)
    BY <1>1, <2>1, <2>4, AppendNoDuplicates DEF QueuesExact
  <2> HIDE DEF q
  <2>6. /\ \A p \in Prios : RunqBack[p] = IF p = prio[c] THEN q ELSE runq[p]
        /\ \A t \in Threads : StateBack[t] = IF t = c THEN "runq" ELSE state[t]
    BY <1>1, <2>1, <2>2 DEF TypeOK
  <2>7. /\ RunqBack \in [Prios -> Seq(Threads)]
        /\ BlockedBack \in Seq(Threads)
        /\ StateBack \in [Threads -> States]
    BY <1>1, <2>1, <2>2, <2>3 DEF TypeOK, States
  <2>8. /\ NoDuplicates(BlockedBack)
        /\ \A p \in Prios : NoDuplicates(RunqBack[p])
    BY <1>1, <2>2, <2>5, <2>6 DEF QueuesExact
  <2>9. \A t \in Threads : /\ Contains(BlockedBack, t) <=> StateBack[t] = "blocked"
                           /\ StateBack[t] # "running"
    BY <1>1, <1>3, <2>2, <2>6 DEF QueuesExact
  <2>10. \A p \in Prios, t \in Threads :
            Contains(RunqBack[p], t) <=> (StateBack[t] = "runq" /\ prio[t] = p)
    BY <1>1, <1>3, <2>3, <2>6 DEF QueuesExact
  <2> QED
    BY <2>7, <2>8, <2>9, <2>10
<1>4. CASE c # NoThread /\ state[c] = "blocked"
  <2>1. c \in Threads
    BY <1>1, <1>4 DEF TypeOK
  <2>2. RunqBack = runq /\ BlockedBack = Append(blockedq, c) /\ StateBack = state
    BY <1>4 DEF RunqBack, BlockedBack, StateBack, Displaced, Sleeping
  <2>3. /\ BlockedBack \in Seq(Threads)
        /\ \A t : Contains(BlockedBack, t) <=> (Contains(blockedq, t) \/ t = c)
    BY <1>1, <2>1, <2>2, AppendProperties, AppendContains DEF TypeOK
  <2>4. ~Contains(blockedq, c)
    BY <1>1, <2>1 DEF QueuesExact
  <2>5. NoDuplicates(BlockedBack)
    BY <1>1, <2>1, <2>2, <2>4, AppendNoDuplicates DEF QueuesExact, TypeOK
  <2>6. \A t \in Threads : /\ Contains(BlockedBack, t) <=> StateBack[t] = "blocked"
                           /\ StateBack[t] # "running"
    BY <1>1, <1>4, <2>2, <2>3 DEF QueuesExact
  <2> QED
    BY <1>1, <2>2, <2>3, <2>5, <2>6 DEF TypeOK, QueuesExact
<1> QED
  BY <1>1, <1>2, <1>3, <1>4 DEF QueuesExact

\* PendSV_Handler puts curthread back and takes the best thread off its queue.
LEMMA PendSVStep ==
    ASSUME SchedInv, PendSV
    PROVE  SchedInv'
<1> USE SchedAssumption DEF SchedAssumption
<1>1. TypeOK /\ QueuesExact /\ BootQuiet
  BY DEF SchedInv
<1>2. /\ mode = "threads" /\ pendsv' = FALSE /\ blockedq' = BlockedBack
      /\ UNCHANGED <<mode, ident, prio>>
  BY DEF PendSV
<1>3. /\ RunqBack \in [Prios -> Seq(Threads)]
      /\ BlockedBack \in Seq(Threads)
      /\ StateBack \in [Threads -> States]
      /\ NoDuplicates(BlockedBack)
      /\ \A p \in Prios : NoDuplicates(RunqBack[p])
      /\ \A t \in Threads : /\ Contains(BlockedBack, t) <=> StateBack[t] = "blocked"
                            /\ StateBack[t] # "running"
      /\ \A p \in Prios, t \in Threads :
            Contains(RunqBack[p], t) <=> (StateBack[t] = "runq" /\ prio[t] = p)
  BY PutBack
<1>4. BootQuiet'
  BY <1>2 DEF BootQuiet
<1>5. CASE Idle
  <2>1. /\ curthread' = NoThread /\ runq' = RunqBack /\ state' = StateBack
        /\ systick' = 0 /\ UNCHANGED <<slice, fresh>>
    BY <1>5 DEF Idle
  <2>2. TypeOK'
    <3>1. 0 \in Nat
      OBVIOUS
    <3>2. pendsv' \in BOOLEAN
      BY <1>2
    <3> QED
      BY <1>1, <1>2, <1>3, <2>1, <3>1, <3>2 DEF TypeOK
  <2>3. QueuesExact'
    BY <1>2, <1>3, <2>1 DEF QueuesExact
  <2> QED
    BY <1>4, <2>2, <2>3 DEF SchedInv
<1>6. ASSUME NEW p \in Prios, IsBest(p, RunqBack), Dispatch(Head(RunqBack[p]))
      PROVE  SchedInv'
  <2> DEFINE n == Head(RunqBack[p])
             rest == Tail(RunqBack[p])
  <2>1. RunqBack[p] \in Seq(Threads) /\ RunqBack[p] # <<>> /\ NoDuplicates(RunqBack[p])
    BY <1>3, <1>6 DEF IsBest
  <2>2. /\ n \in Threads /\ rest \in Seq(Threads) /\ NoDuplicates(rest)
        /\ \A t : Contains(rest, t) <=> (Contains(RunqBack[p], t) /\ t # n)
        /\ Contains(RunqBack[p], n)
    BY <2>1, HeadTailProperties, TailFacts
  <2>3. StateBack[n] = "runq" /\ prio[n] = p
    BY <1>3, <2>2
  <2> HIDE DEF n
  <2>4. /\ curthread' = n
        /\ runq' = [RunqBack EXCEPT ![p] = rest]
        /\ state' = [StateBack EXCEPT ![n] = "running"]
        /\ slice' = [slice EXCEPT ![n] = IF slice[n] = 0 THEN Slice ELSE slice[n]]
        /\ systick' = IF prio[n] = REALTIME THEN 0 ELSE slice'[n]
        /\ fresh' = fresh \ {n}
    BY <1>6, <2>3 DEF Dispatch, n
  <2> HIDE DEF rest
  <2>5. slice' \in [Threads -> Nat]
    BY <1>1, <2>2, <2>4 DEF TypeOK
  <2>6. systick' \in Nat
    BY <2>2, <2>4, <2>5
  <2>7. TypeOK'
    BY <1>1, <1>2, <1>3, <2>2, <2>4, <2>5, <2>6 DEF TypeOK, States
  <2>8. /\ \A r \in Prios : runq'[r] = IF r = p THEN rest ELSE RunqBack[r]
        /\ \A t \in Threads : state'[t] = IF t = n THEN "running" ELSE StateBack[t]
    BY <1>3, <2>2, <2>4
  <2>9. QueuesExact'
    <3>1. \A t \in Threads :
             Contains(blockedq', t) <=> (state'[t] = "blocked" /\ t # curthread')
      BY <1>2, <1>3, <2>3, <2>4, <2>8
    <3>2. \A r \in Prios, t \in Threads :
             Contains(runq'[r], t) <=> (state'[t] = "runq" /\ prio'[t] = r)
      BY <1>2, <1>3, <2>2, <2>3, <2>8
    <3>3. \A t \in Threads : state'[t] = "running" => t = curthread'
      BY <1>3, <2>4, <2>8
    <3>4. state'[curthread'] = "running"
      BY <2>2, <2>4, <2>8
    <3>5. NoDuplicates(blockedq') /\ \A r \in Prios : NoDuplicates(runq'[r])
      BY <1>2, <1>3, <2>2, <2>8
    <3> QED
      BY <3>1, <3>2, <3>3, <3>4, <3>5 DEF QueuesExact
  <2> QED
    BY <1>4, <2>7, <2>9 DEF SchedInv
<1> QED
  BY <1>5, <1>6 DEF PendSV

-----------------------------------------------------------------------------
(* Boot                                                                    *)

\* thread_init before enter_thread_mode, where the store may fault.
LEMMA BootThreadInitStep ==
    ASSUME SchedInv, NEW u \in Threads, BootThreadInit(u)
    PROVE  SchedInv'
<1> USE SchedAssumption DEF SchedAssumption
<1>1. CASE Enqueue(u) /\ (\E junk \in StackJunk : slice' = [slice EXCEPT ![u] = junk])
           /\ mode' = mode
  <2>1. slice' \in [Threads -> Nat]
    BY <1>1 DEF SchedInv, TypeOK
  <2> QED
    BY <1>1, <2>1, EnqueueStep
<1>2. CASE /\ mode' = "fault"
           /\ UNCHANGED <<curthread, runq, blockedq, state, ident, slice, prio,
                          pendsv, systick, fresh>>
  BY <1>2 DEF BootThreadInit, SchedInv, TypeOK, QueuesExact, BootQuiet
<1> QED
  BY <1>1, <1>2 DEF BootThreadInit

\* enter_thread_mode: main becomes a running thread that is on no queue.
LEMMA EnterThreadModeStep ==
    ASSUME SchedInv, EnterThreadMode
    PROVE  SchedInv'
<1> USE SchedAssumption DEF SchedAssumption
<1>1. TypeOK /\ QueuesExact /\ BootQuiet
  BY DEF SchedInv
<1>2. state[initial] = "invalid" /\ curthread = NoThread
  BY <1>1 DEF EnterThreadMode, BootQuiet
<1>3. /\ mode' = "threads" /\ curthread' = initial /\ pendsv' = TRUE
      /\ \A t \in Threads : /\ state'[t] = IF t = initial THEN "running" ELSE state[t]
                            /\ prio'[t] = IF t = initial THEN NORMAL ELSE prio[t]
      /\ UNCHANGED <<runq, blockedq, ident, systick, fresh>>
  BY <1>1 DEF EnterThreadMode, TypeOK
<1>4. NORMAL \in Prios /\ 0 \in Nat
  BY DEF Prios, NORMAL, REALTIME, PRIO_MAX, BESTEFFORT
<1>5. TypeOK'
  BY <1>1, <1>4 DEF EnterThreadMode, TypeOK, States
<1>6. QueuesExact'
  BY <1>1, <1>2, <1>3 DEF QueuesExact
<1>7. BootQuiet'
  BY <1>3 DEF BootQuiet
<1> QED
  BY <1>5, <1>6, <1>7 DEF SchedInv

-----------------------------------------------------------------------------
\* Every step of the scheduler preserves the inductive invariant.
LEMMA StepInv == SchedInv /\ [Next]_vars => SchedInv'
<1> SUFFICES ASSUME SchedInv, [Next]_vars PROVE SchedInv'
  OBVIOUS
<1> USE SchedAssumption DEF SchedAssumption
<1>1. ASSUME NEW u \in Threads, BootThreadInit(u) PROVE SchedInv'
  BY <1>1, BootThreadInitStep
<1>2. CASE EnterThreadMode
  BY <1>2, EnterThreadModeStep
<1>3. CASE HardFault \/ UNCHANGED vars
  BY <1>3 DEF HardFault, vars, SchedInv, TypeOK, QueuesExact, BootQuiet
<1>4. ASSUME NEW t \in Threads, Syscall(t) PROVE SchedInv'
  <2>1. CASE Yield(t)
    BY <2>1, ForfeitStep DEF Yield
  <2>2. ASSUME NEW id \in Idents, NEW unchanged \in BOOLEAN,
               WaitCond(t, id, unchanged)
        PROVE  SchedInv'
    BY <2>2, WaitCondStep
  <2>3. ASSUME NEW id \in Idents, Wakeup(t, id) PROVE SchedInv'
    BY <2>3, SysWakeupStep DEF Wakeup
  <2>4. ASSUME NEW p \in PrioArgs, SetPrio(t, p) PROVE SchedInv'
    BY <2>4, SetPrioStep
  <2>5. ASSUME NEW u \in Threads, ThreadInit(t, u) PROVE SchedInv'
    <3>1. slice' \in [Threads -> Nat]
      <4>1. PICK junk \in StackJunk :
               slice' = [slice EXCEPT ![t] = 0, ![u] = junk]
        BY <2>5 DEF ThreadInit
      <4>2. slice \in [Threads -> Nat] /\ junk \in Nat /\ 0 \in Nat
        BY DEF SchedInv, TypeOK
      <4> QED
        BY <4>1, <4>2
    <3> QED
      BY <2>5, <3>1, EnqueueStep DEF ThreadInit
  <2> QED
    BY <1>4, <2>1, <2>2, <2>3, <2>4, <2>5 DEF Syscall
<1>5. ASSUME NEW id \in Idents, IrqWakeup(id) PROVE SchedInv'
  BY <1>5, SysWakeupStep DEF IrqWakeup
<1>6. CASE SysTick
  BY <1>6, ForfeitStep DEF SysTick
<1>7. CASE PendSV
  BY <1>7, PendSVStep
<1> QED
  BY <1>1, <1>2, <1>3, <1>4, <1>5, <1>6, <1>7 DEF Next

\* The scheduler keeps its inductive invariant.
THEOREM SchedInvariant == Spec => []SchedInv
<1> QED
  BY InitInv, StepInv, PTL DEF Spec

\* Type correctness of the scheduler.
THEOREM TypeCorrect == Spec => []TypeOK
<1> QED
  BY SchedInvariant, InvImplies, PTL

\* No thread is on two queues, twice on one, or on a queue of the wrong state
\* or priority, whatever the threads and interrupts do.
THEOREM QueuesAreSound == Spec => []QueuesSound
<1> QED
  BY SchedInvariant, InvImplies, PTL

\* No thread falls out of the scheduler: runnable ones stay on the run queue
\* of their priority and blocked ones where a wakeup finds them.
THEOREM NoThreadIsLost == Spec => []NoThreadLost
<1> QED
  BY SchedInvariant, InvImplies, PTL

\* Thread code runs only in a running thread.
LEMMA OnCpuRuns ==
    ASSUME SchedInv, HandlerMayRun, curthread # NoThread
    PROVE  state[curthread] = "running"
  BY DEF SchedInv, QueuesExact, HandlerMayRun

-----------------------------------------------------------------------------
(* Priorities and the timer                                                *)

\* A slice the timer can count, or what a stack held.
Countable(n) == n = 0 \/ n % Reload > 0 \/ n \in StackJunk
SlicesCount == \A t \in Threads : Countable(slice[t])

RankInv == SchedInv /\ SlicesCount /\ PriorityRespected /\ TimerArmed

LEMMA Remainders == \A n \in Nat : n % Reload \in Nat
  BY SchedAssumption DEF SchedAssumption

LEMMA ShortSlices == \A n \in 0..Reload - 1 : Countable(n)
<1> SUFFICES ASSUME NEW n \in 0..Reload - 1, n > 0 PROVE n % Reload > 0
  BY SchedAssumption DEF SchedAssumption, Countable
<1>1. n % Reload = n
  BY SchedAssumption DEF SchedAssumption
<1> QED
  BY <1>1

LEMMA LeftCounts == ASSUME TypeOK, NEW left \in TimeLeft PROVE Countable(left)
<1>1. Load \in 0..Reload - 1
  BY SchedAssumption DEF SchedAssumption, TypeOK, Load
<1>2. Reload \in Nat \ {0}
  BY SchedAssumption DEF SchedAssumption
<1>3. left \in 0..Reload - 1
  <2> HIDE DEF Load
  <2> QED
    BY <1>1, <1>2 DEF TimeLeft
<1> QED
  BY <1>3, ShortSlices

\* A slice is renewed, cleared, charged, or left by a stack.
LEMMA StepCounts ==
    ASSUME SchedInv, SlicesCount, [Next]_vars
    PROVE  SlicesCount'
<1>1. TypeOK /\ slice \in [Threads -> Nat]
  BY DEF SchedInv, TypeOK
<1>2. 0 \in Nat /\ Countable(0) /\ Countable(Slice)
  BY ShortSlices, SchedAssumption DEF SchedAssumption
<1>3. \A junk \in StackJunk : Countable(junk)
  BY DEF Countable
<1> DEFINE Changed(t) == \E n : Countable(n) /\ slice' = [slice EXCEPT ![t] = n]
<1>4. ASSUME NEW t \in Threads, Changed(t) PROVE SlicesCount'
  BY <1>1, <1>4 DEF SlicesCount, Countable
<1>5. slice' = slice => SlicesCount'
  BY DEF SlicesCount, Countable
<1>6. ASSUME NEW u \in Threads, BootThreadInit(u) PROVE SlicesCount'
  <2>1. (\E junk \in StackJunk : slice' = [slice EXCEPT ![u] = junk]) \/ slice' = slice
    BY <1>6 DEF BootThreadInit
  <2> QED
    BY <1>3, <1>4, <1>5, <2>1
<1>7. CASE EnterThreadMode
  <2>1. slice' = [slice EXCEPT ![initial] = 0] /\ initial \in Threads
    BY <1>7, SchedAssumption DEF SchedAssumption, EnterThreadMode
  <2> QED
    BY <1>2, <1>4, <2>1
<1>8. CASE HardFault \/ UNCHANGED vars
  BY <1>5, <1>8 DEF HardFault, vars
<1>9. Forfeit => SlicesCount'
  <2> SUFFICES ASSUME Forfeit PROVE SlicesCount'
    OBVIOUS
  <2>1. slice' = [slice EXCEPT ![curthread] = 0]
    BY DEF Forfeit
  <2>2. \A t \in Threads : slice'[t] = slice[t] \/ slice'[t] = 0
    BY <1>1, <2>1
  <2> QED
    BY <1>2, <2>2 DEF SlicesCount, Countable
<1>10. ASSUME NEW t \in Threads, Syscall(t) PROVE SlicesCount'
  <2>1. CASE Yield(t)
    BY <1>9, <2>1 DEF Yield
  <2>2. ASSUME NEW id \in Idents, NEW unchanged \in BOOLEAN, WaitCond(t, id, unchanged)
        PROVE  SlicesCount'
    <3>1. (\E left \in TimeLeft : slice' = [slice EXCEPT ![t] = left]) \/ slice' = slice
      BY <2>2 DEF WaitCond
    <3> QED
      BY <1>1, <1>4, <1>5, <3>1, LeftCounts
  <2>3. ASSUME NEW id \in Idents, Wakeup(t, id) PROVE SlicesCount'
    BY <1>5, <2>3 DEF Wakeup, SysWakeup
  <2>4. ASSUME NEW p \in PrioArgs, SetPrio(t, p) PROVE SlicesCount'
    BY <1>5, <2>4 DEF SetPrio
  <2>5. ASSUME NEW u \in Threads, ThreadInit(t, u) PROVE SlicesCount'
    <3>1. PICK junk \in StackJunk : slice' = [slice EXCEPT ![t] = 0, ![u] = junk]
      BY <2>5 DEF ThreadInit
    <3>2. \A v \in Threads : slice'[v] = slice[v] \/ slice'[v] = 0 \/ slice'[v] = junk
      BY <1>1, <3>1
    <3> QED
      BY <1>2, <1>3, <3>2 DEF SlicesCount, Countable
  <2> QED
    BY <1>10, <2>1, <2>2, <2>3, <2>4, <2>5 DEF Syscall
<1>11. ASSUME NEW id \in Idents, IrqWakeup(id) PROVE SlicesCount'
  BY <1>5, <1>11 DEF IrqWakeup, SysWakeup
<1>12. CASE SysTick
  BY <1>9, <1>12 DEF SysTick
<1>13. CASE PendSV
  <2>1. CASE Idle
    BY <1>5, <2>1 DEF Idle
  <2>2. ASSUME NEW t, Dispatch(t) PROVE SlicesCount'
    <3>1. slice' = [slice EXCEPT ![t] = IF @ = 0 THEN Slice ELSE @]
      BY <2>2 DEF Dispatch
    <3>2. \A v \in Threads : slice'[v] = slice[v] \/ slice'[v] = Slice
      BY <1>1, <3>1
    <3> QED
      BY <1>2, <3>2 DEF SlicesCount, Countable
  <2> QED
    BY <1>13, <2>1, <2>2 DEF PendSV
<1> QED
  BY <1>6, <1>7, <1>8, <1>10, <1>11, <1>12, <1>13 DEF Next

\* The dispatched thread is the best one, and the timer is armed for its slice.
LEMMA PendSVRanks ==
    ASSUME SchedInv, SlicesCount, PendSV
    PROVE  PriorityRespected' /\ TimerArmed'
<1> USE SchedAssumption DEF SchedAssumption
<1>1. TypeOK /\ QueuesExact
  BY DEF SchedInv
<1>2. /\ RunqBack \in [Prios -> Seq(Threads)]
      /\ \A p \in Prios : NoDuplicates(RunqBack[p])
      /\ \A p \in Prios, t \in Threads :
            Contains(RunqBack[p], t) <=> (StateBack[t] = "runq" /\ prio[t] = p)
  BY PutBack
<1>3. UNCHANGED prio
  BY DEF PendSV
<1>4. CASE Idle /\ \A p \in Prios : RunqBack[p] = <<>>
  <2>1. \A p \in Prios, t \in Threads : ~Contains(runq'[p], t)
    BY <1>4, EmptyQueue DEF Idle
  <2> QED
    BY <1>4, <2>1 DEF Idle, PriorityRespected, TimerArmed
<1>5. ASSUME NEW p \in Prios, IsBest(p, RunqBack), Dispatch(Head(RunqBack[p]))
      PROVE  PriorityRespected' /\ TimerArmed'
  <2> DEFINE n == Head(RunqBack[p])
  <2>1. RunqBack[p] \in Seq(Threads) /\ RunqBack[p] # <<>>
    BY <1>2, <1>5 DEF IsBest
  <2>2. n \in Threads /\ Contains(RunqBack[p], n)
    BY <1>2, <2>1, HeadTailProperties, TailFacts
  <2>3. prio[n] = p /\ n # NoThread
    BY <1>2, <2>2
  <2> HIDE DEF n
  <2>4. /\ curthread' = n
        /\ runq' = [RunqBack EXCEPT ![p] = Tail(RunqBack[p])]
        /\ slice' = [slice EXCEPT ![n] = IF slice[n] = 0 THEN Slice ELSE slice[n]]
        /\ systick' = IF p = REALTIME THEN 0 ELSE slice'[n]
    BY <1>5, <2>3 DEF Dispatch, n
  <2>5. \A r \in Prios, t \in Threads : Contains(runq'[r], t) => p <= r
    <3> SUFFICES ASSUME NEW r \in Prios, NEW t \in Threads, Contains(runq'[r], t)
                 PROVE  p <= r
      OBVIOUS
    <3>1. CASE r = p
      BY <3>1 DEF Prios, REALTIME, PRIO_MAX, BESTEFFORT
    <3>2. CASE r # p
      <4>1. runq'[r] = RunqBack[r]
        BY <1>2, <2>4, <3>2
      <4>2. RunqBack[r] # <<>>
        BY <4>1, EmptyQueue
      <4> QED
        BY <1>5, <4>2 DEF IsBest
    <3> QED
      BY <3>1, <3>2
  <2>6. PriorityRespected'
    BY <1>3, <2>3, <2>4, <2>5 DEF PriorityRespected
  <2>7. slice'[n] \in Nat \ {0}
    BY <1>1, <2>2, <2>4 DEF TypeOK
  <2>8. Countable(slice[n]) /\ Countable(Slice)
    BY <2>2, ShortSlices DEF SlicesCount
  <2>9. Countable(slice'[n])
    BY <1>1, <2>2, <2>4, <2>8 DEF TypeOK
  <2>10. systick' > 0 => systick' % Reload > 0 \/ systick' \in StackJunk \ {0}
    BY <2>4, <2>7, <2>9 DEF Countable
  <2>11. systick' > 0 => Load' > 0 \/ Unclocked'
    <3>1. systick' \in Nat
      BY <2>4, <2>7
    <3>2. systick' % Reload \in Nat
      BY <3>1, Remainders
    <3>3. Load' = systick' % Reload
      BY DEF Load
    <3>4. Load' > 0 \/ Load' = 0
      BY <3>2, <3>3
    <3>5. systick' \in StackJunk \ {0} /\ Load' = 0 => Unclocked'
      BY DEF Unclocked
    <3>6. systick' % Reload > 0 => Load' > 0
      BY <3>3
    <3> QED
      BY <2>10, <3>4, <3>5, <3>6
  <2>12. TimerArmed'
    BY <1>3, <2>3, <2>4, <2>7, <2>11 DEF TimerArmed
  <2> QED
    BY <2>6, <2>12
<1> QED
  BY <1>4, <1>5 DEF PendSV

\* A wakeup that puts a better thread on a queue asks for a reschedule.
LEMMA SysWakeupRanks ==
    ASSUME RankInv, HandlerMayRun, NEW id \in Idents, SysWakeup(id)
    PROVE  PriorityRespected' /\ TimerArmed'
<1> DEFINE woken == Sleepers(id)
<1>1. /\ SchedInv /\ TypeOK /\ QueuesExact /\ PriorityRespected /\ TimerArmed
      /\ mode = "threads" /\ ~pendsv
  BY DEF RankInv, SchedInv, HandlerMayRun
<1>2. /\ \A p \in Prios : runq'[p] = Refill(p, woken)
      /\ pendsv' = \E t \in woken : Outranks(t)
      /\ UNCHANGED <<mode, curthread, prio, systick, fresh>>
  BY <1>1 DEF SysWakeup
<1>3. TimerArmed'
  BY <1>1, <1>2 DEF TimerArmed, Unclocked, Load
<1>4. PriorityRespected'
  <2> SUFFICES ASSUME ~pendsv', NEW p \in Prios, NEW t \in Threads,
                      Contains(runq'[p], t)
               PROVE  curthread # NoThread /\ (t \in fresh \/ prio[curthread] <= p)
    BY <1>2 DEF PriorityRespected
  <2>1. \/ state[t] = "runq" /\ prio[t] = p
        \/ t \in woken /\ prio[t] = p
    BY <1>1, <1>2, RefillFacts
  <2>2. CASE state[t] = "runq" /\ prio[t] = p
    BY <1>1, <2>2 DEF QueuesExact, PriorityRespected
  <2>3. CASE t \in woken /\ prio[t] = p
    <3>1. ~Outranks(t)
      BY <1>2, <2>3
    <3>2. curthread \in Threads
      BY <1>1, <3>1 DEF Outranks, TypeOK
    <3>3. prio[t] \in Nat /\ prio[curthread] \in Nat
      <4>1. prio \in [Threads -> Prios]
        BY <1>1 DEF TypeOK
      <4>2. Prios \subseteq Nat
        BY DEF Prios, REALTIME
      <4> QED
        BY <3>2, <4>1, <4>2
    <3> QED
      BY <2>3, <3>1, <3>3 DEF Outranks
  <2> QED
    BY <2>1, <2>2, <2>3
<1> QED
  BY <1>3, <1>4

\* A new thread counts as fresh until its first dispatch.
LEMMA ThreadInitRanks ==
    ASSUME RankInv, NEW t \in Threads, NEW u \in Threads, ThreadInit(t, u)
    PROVE  PriorityRespected' /\ TimerArmed'
<1> USE SchedAssumption DEF SchedAssumption
<1>1. /\ TypeOK /\ QueuesExact /\ PriorityRespected /\ TimerArmed
      /\ mode = "threads" /\ ~pendsv /\ curthread = t /\ Enqueue(u)
  BY DEF RankInv, SchedInv, ThreadInit, HandlerMayRun
<1>2. NORMAL \in Prios /\ runq[NORMAL] \in Seq(Threads)
  BY <1>1 DEF TypeOK, Prios, NORMAL, REALTIME, PRIO_MAX, BESTEFFORT
<1>3. t # u /\ t # NoThread
  BY <1>1 DEF QueuesExact, Enqueue
<1>4. /\ \A p \in Prios : runq'[p] = IF p = NORMAL THEN Append(runq[p], u)
                                     ELSE runq[p]
      /\ prio'[t] = prio[t]
      /\ fresh' = fresh \union {u}
      /\ UNCHANGED <<curthread, systick, pendsv>>
  BY <1>1, <1>2, <1>3 DEF Enqueue, TypeOK
<1>5. mode' = mode
  BY DEF ThreadInit
<1>6. \A p \in Prios, v \in Threads :
         Contains(runq'[p], v) => Contains(runq[p], v) \/ v = u
  BY <1>2, <1>4, AppendContains
<1>7. PriorityRespected'
  BY <1>1, <1>3, <1>4, <1>5, <1>6 DEF PriorityRespected
<1>8. TimerArmed'
  BY <1>1, <1>3, <1>4, <1>5 DEF TimerArmed, Unclocked, Load
<1> QED
  BY <1>7, <1>8

\* Every other step asks for a reschedule or changes no rank.
LEMMA StepRanks == RankInv /\ [Next]_vars => RankInv'
<1> SUFFICES ASSUME RankInv, [Next]_vars PROVE PriorityRespected' /\ TimerArmed'
  BY StepInv, StepCounts DEF RankInv
<1>1. SchedInv /\ SlicesCount /\ PriorityRespected /\ TimerArmed
  BY DEF RankInv
<1> DEFINE Quiet == mode' # "threads" \/ pendsv'
<1>2. Quiet => PriorityRespected' /\ TimerArmed'
  BY DEF PriorityRespected, TimerArmed
<1> DEFINE Same == UNCHANGED <<mode, curthread, runq, prio, pendsv, systick, fresh>>
<1>3. Same => PriorityRespected' /\ TimerArmed'
  BY <1>1 DEF PriorityRespected, TimerArmed, Unclocked, Load
<1>4. ASSUME NEW u \in Threads, BootThreadInit(u) PROVE Quiet
  BY <1>4 DEF BootThreadInit
<1>5. CASE EnterThreadMode
  BY <1>2, <1>5 DEF EnterThreadMode
<1>6. CASE HardFault \/ UNCHANGED vars
  BY <1>3, <1>6 DEF HardFault, vars
<1>7. ASSUME NEW t \in Threads, Syscall(t)
      PROVE  PriorityRespected' /\ TimerArmed'
  <2>1. CASE Yield(t)
    BY <1>2, <2>1 DEF Yield, Forfeit
  <2>2. ASSUME NEW id \in Idents, NEW unchanged \in BOOLEAN,
               WaitCond(t, id, unchanged)
        PROVE  Quiet \/ Same
    BY <2>2 DEF WaitCond
  <2>3. ASSUME NEW id \in Idents, Wakeup(t, id)
        PROVE  PriorityRespected' /\ TimerArmed'
    BY <2>3, SysWakeupRanks DEF Wakeup
  <2>4. ASSUME NEW p \in PrioArgs, SetPrio(t, p) PROVE Quiet \/ Same
    BY <2>4 DEF SetPrio
  <2>5. ASSUME NEW u \in Threads, ThreadInit(t, u)
        PROVE  PriorityRespected' /\ TimerArmed'
    BY <2>5, ThreadInitRanks
  <2> QED
    BY <1>2, <1>3, <1>7, <2>1, <2>2, <2>3, <2>4, <2>5 DEF Syscall
<1>8. ASSUME NEW id \in Idents, IrqWakeup(id)
      PROVE  PriorityRespected' /\ TimerArmed'
  BY <1>8, SysWakeupRanks DEF IrqWakeup
<1>9. CASE SysTick
  BY <1>2, <1>9 DEF SysTick, Forfeit
<1>10. CASE PendSV
  BY <1>1, <1>10, PendSVRanks
<1> QED
  BY <1>2, <1>4, <1>5, <1>6, <1>7, <1>8, <1>9, <1>10 DEF Next

LEMMA Ranks == Spec => []RankInv
<1>1. Init => RankInv
  BY InitInv DEF Init, RankInv, SlicesCount, Countable, PriorityRespected, TimerArmed
<1> QED
  BY <1>1, StepRanks, PTL DEF Spec

\* No dispatched thread of a better priority ever waits behind thread code,
\* and the processor never idles while a thread is runnable.
THEOREM PrioritiesHold == Spec => []PriorityRespected
<1>1. RankInv => PriorityRespected
  BY DEF RankInv
<1> QED
  BY <1>1, Ranks, PTL

\* The timer is armed for a time-sliced thread and for nothing else, so that
\* SysTick_Handler never runs in the idle loop.
THEOREM TimerIsArmed == Spec => []TimerArmed
<1>1. RankInv => TimerArmed
  BY DEF RankInv
<1> QED
  BY <1>1, Ranks, PTL

\* No interrupt and no wakeup makes a reschedule due while a realtime thread
\* runs: nothing outranks it and its timer is off.
THEOREM RealtimeIsKept == Spec => RealtimeKeepsCpu
<1> DEFINE Kept == (/\ HandlerMayRun /\ curthread # NoThread
                    /\ prio[curthread] = REALTIME /\ pendsv')
                   => GaveUp(curthread)
<1>1. RankInv /\ [Next]_vars => [Kept]_vars
  <2> SUFFICES ASSUME RankInv, Next, HandlerMayRun, curthread # NoThread,
                      prio[curthread] = REALTIME, pendsv'
               PROVE  GaveUp(curthread)
    OBVIOUS
  <2>1. TypeOK /\ TimerArmed /\ mode = "threads" /\ ~pendsv
    BY DEF RankInv, SchedInv, HandlerMayRun
  <2>2. \A id \in Idents : ~SysWakeup(id)
    <3> SUFFICES ASSUME NEW id \in Idents, SysWakeup(id) PROVE FALSE
      OBVIOUS
    <3>1. PICK t \in Sleepers(id) : Outranks(t)
      BY <2>1 DEF SysWakeup
    <3>2. prio[t] < REALTIME
      BY <3>1 DEF Outranks
    <3>3. t \in Threads
      BY DEF Sleepers
    <3>4. prio[t] \in Nat
      <4>1. prio \in [Threads -> Prios]
        BY <2>1 DEF TypeOK
      <4>2. Prios \subseteq Nat
        BY DEF Prios, REALTIME
      <4> QED
        BY <3>3, <4>1, <4>2
    <3> QED
      BY <3>2, <3>4 DEF REALTIME
  <2>3. ~SysTick
    <3>1. systick = 0
      BY <2>1 DEF TimerArmed, TypeOK
    <3>2. Load = 0
      BY <3>1, SchedAssumption DEF Load, SchedAssumption
    <3> QED
      BY <3>2 DEF SysTick
  <2>4. \A u \in Threads : ~BootThreadInit(u)
    BY <2>1 DEF BootThreadInit
  <2>5. ~EnterThreadMode /\ ~HardFault /\ ~PendSV
    BY <2>1 DEF EnterThreadMode, HardFault, PendSV
  <2>6. PICK t \in Threads : Syscall(t)
    BY <2>2, <2>3, <2>4, <2>5 DEF Next, IrqWakeup
  <2>7. curthread \in Threads
    BY <2>1 DEF TypeOK
  <2>8. CASE Yield(t)
    BY <2>8 DEF Yield, GaveUp
  <2>9. ASSUME NEW id \in Idents, NEW unchanged \in BOOLEAN,
               WaitCond(t, id, unchanged)
        PROVE  GaveUp(curthread)
    <3>1. t = curthread /\ state' = [state EXCEPT ![t] = "blocked"]
      BY <2>1, <2>9 DEF WaitCond
    <3> QED
      BY <2>1, <2>7, <3>1 DEF GaveUp, TypeOK
  <2>10. ASSUME NEW p \in PrioArgs, SetPrio(t, p) PROVE GaveUp(curthread)
    <3>1. t = curthread /\ prio' = [prio EXCEPT ![t] = p] /\ prio[t] # p
      BY <2>1, <2>10 DEF SetPrio
    <3> QED
      BY <2>1, <2>7, <3>1 DEF GaveUp, TypeOK
  <2>11. ASSUME NEW u \in Threads, ThreadInit(t, u) PROVE FALSE
    BY <2>1, <2>11 DEF ThreadInit, Enqueue
  <2> QED
    BY <2>2, <2>6, <2>8, <2>9, <2>10, <2>11 DEF Syscall, Wakeup
<1>2. Spec => [][Kept]_vars
  BY <1>1, Ranks, PTL DEF Spec
<1> QED
  BY <1>2 DEF RealtimeKeepsCpu

-----------------------------------------------------------------------------
(* Sched implements ThreadSpec: the queues, the slices and the pending      *)
(* reschedule are details.                                                  *)

\* What ThreadSpec sees of the threads.
Status == [t \in Threads |-> StatusOf(t)]
Chan == [t \in Threads |-> IF state[t] = "blocked" THEN ident[t] ELSE NULL]

\* A status says no more and no less than the state.
LEMMA StatusFacts ==
    ASSUME NEW t \in Threads, state[t] \in States
    PROVE  /\ Status[t] = "none" <=> state[t] = "invalid"
           /\ Status[t] = "ready" <=> state[t] = "runq"
           /\ Status[t] = "waiting" <=> state[t] = "blocked"
           /\ Status[t] = "running" <=> state[t] = "running"
  BY DEF Status, StatusOf, States

\* The view after a step in which the threads are in these states.
LEMMA NextStatus ==
    ASSUME NEW t \in Threads
    PROVE  /\ state'[t] = "runq" => Status'[t] = "ready"
           /\ state'[t] = "blocked" => Status'[t] = "waiting"
           /\ state'[t] = "running" => Status'[t] = "running"
           /\ state'[t] = state[t] => Status'[t] = Status[t]
           /\ state'[t] = state[t] /\ ident'[t] = ident[t] => Chan'[t] = Chan[t]
           /\ state'[t] # "blocked" => Chan'[t] = NULL
           /\ state'[t] = "blocked" => Chan'[t] = ident'[t]
<1>1. Status[t] = StatusOf(t) /\ Status'[t] = StatusOf(t)'
  BY DEF Status
<1>2. /\ state'[t] = "runq" => StatusOf(t)' = "ready"
      /\ state'[t] = "blocked" => StatusOf(t)' = "waiting"
      /\ state'[t] = "running" => StatusOf(t)' = "running"
  BY DEF StatusOf
<1>3. state'[t] = state[t] => StatusOf(t)' = StatusOf(t)
  BY DEF StatusOf
<1>4. /\ Chan[t] = IF state[t] = "blocked" THEN ident[t] ELSE NULL
      /\ Chan'[t] = IF state'[t] = "blocked" THEN ident'[t] ELSE NULL
  BY DEF Chan
<1> QED
  BY <1>1, <1>2, <1>3, <1>4

\* The view after the status of one thread has changed.
LEMMA OneStatus ==
    ASSUME NEW t \in Threads, NEW s, Status'[t] = s,
           \A u \in Threads \ {t} : Status'[u] = Status[u]
    PROVE  Status' = [Status EXCEPT ![t] = s]
<1>1. \A u \in Threads : Status'[u] = IF u = t THEN s ELSE Status[u]
  OBVIOUS
<1> QED
  BY <1>1 DEF Status

\* A step that leaves the states, channels and priorities alone.
LEMMA Stutter ==
    ASSUME UNCHANGED <<state, ident, prio>> PROVE UNCHANGED AbsThreads!vars
  BY DEF AbsThreads!vars, StatusOf

LEMMA CreateStep ==
    ASSUME SchedInv, NEW u \in Threads, Enqueue(u) PROVE AbsThreads!Create(u)
<1>1. state \in [Threads -> States] /\ state[u] = "invalid"
  BY DEF SchedInv, TypeOK, Enqueue
<1>2. /\ state' = [state EXCEPT ![u] = "runq"] /\ ident' = ident
      /\ prio' = [prio EXCEPT ![u] = NORMAL]
  BY DEF Enqueue
<1>3. state'[u] = "runq" /\ \A t \in Threads \ {u} : state'[t] = state[t]
  BY <1>1, <1>2
<1>4. Status[u] = "none" /\ Status' = [Status EXCEPT ![u] = "ready"]
  BY <1>1, <1>3, StatusFacts, NextStatus, OneStatus
<1>5. Chan' = Chan
  BY <1>1, <1>2, <1>3 DEF Chan
<1> QED
  BY <1>2, <1>4, <1>5 DEF AbsThreads!Create, Status, Chan

LEMMA StartStep ==
    ASSUME SchedInv, EnterThreadMode PROVE AbsThreads!Start
<1> USE SchedAssumption DEF SchedAssumption
<1>1. /\ state \in [Threads -> States] /\ state[initial] = "invalid"
      /\ \A t \in Threads : state[t] # "running"
  BY DEF EnterThreadMode, SchedInv, TypeOK, QueuesExact, BootQuiet
<1>2. /\ state' = [state EXCEPT ![initial] = "running"] /\ ident' = ident
      /\ prio' = [prio EXCEPT ![initial] = NORMAL]
  BY DEF EnterThreadMode
<1>3. /\ state'[initial] = "running"
      /\ \A t \in Threads \ {initial} : state'[t] = state[t]
  BY <1>1, <1>2
<1>4. /\ Status[initial] = "none"
      /\ Status' = [Status EXCEPT ![initial] = "running"]
  BY <1>1, <1>3, StatusFacts, NextStatus, OneStatus
<1>5. Chan' = Chan
  BY <1>1, <1>2, <1>3 DEF Chan
<1>6. \A t \in Threads : Status[t] # "running"
  BY <1>1, StatusFacts
<1> QED
  BY <1>2, <1>4, <1>5, <1>6
  DEF AbsThreads!Start, AbsThreads!Running, Status, Chan

LEMMA SleepingStep ==
    ASSUME SchedInv, NEW t \in Threads, NEW id \in Idents, WaitCond(t, id, TRUE)
    PROVE  AbsThreads!Sleep(t, id)
<1> USE SchedAssumption DEF SchedAssumption
<1>1. /\ state \in [Threads -> States] /\ ident \in [Threads -> Idents]
      /\ state[t] = "running"
  BY OnCpuRuns DEF WaitCond, SchedInv, TypeOK
<1>2. /\ state' = [state EXCEPT ![t] = "blocked"]
      /\ ident' = [ident EXCEPT ![t] = id] /\ prio' = prio
  BY DEF WaitCond
<1>3. /\ state'[t] = "blocked" /\ ident'[t] = id
      /\ \A u \in Threads \ {t} : state'[u] = state[u] /\ ident'[u] = ident[u]
  BY <1>1, <1>2
<1>4. Status[t] = "running" /\ Status' = [Status EXCEPT ![t] = "waiting"]
  BY <1>1, <1>3, StatusFacts, NextStatus, OneStatus
<1>5. Chan' = [Chan EXCEPT ![t] = id]
  BY <1>3, NextStatus DEF Chan
<1> QED
  BY <1>2, <1>4, <1>5 DEF AbsThreads!Sleep, AbsThreads!Running, Status, Chan

\* The sleepers that sys_wakeup finds on the blocked queue are those that
\* sleep on the channel.
LEMMA WakeStep ==
    ASSUME SchedInv, HandlerMayRun, NEW id \in Idents, SysWakeup(id)
    PROVE  AbsThreads!Wake(id)
<1> USE SchedAssumption DEF SchedAssumption
<1> DEFINE woken == {t \in Threads : Status[t] = "waiting" /\ Chan[t] = id}
<1>1. state \in [Threads -> States] /\ QueuesExact
  BY DEF SchedInv, TypeOK
<1>2. ASSUME NEW t \in Threads PROVE t \in woken <=> t \in Sleepers(id)
  <2>1. Status[t] = "waiting" <=> state[t] = "blocked"
    BY <1>1, StatusFacts
  <2>2. state[t] = "blocked" => t # curthread
    BY OnCpuRuns DEF SchedInv
  <2>3. Contains(blockedq, t) <=> state[t] = "blocked"
    BY <1>1, <2>2 DEF QueuesExact
  <2>4. state[t] = "blocked" => Chan[t] = ident[t]
    BY DEF Chan
  <2> QED
    BY <2>1, <2>3, <2>4 DEF Sleepers
<1> HIDE DEF woken
<1>3. /\ \A t \in Threads :
            state'[t] = IF t \in woken THEN "runq" ELSE state[t]
      /\ ident' = ident /\ prio' = prio
  BY <1>2 DEF SysWakeup
<1>4. \A t \in Threads :
         Status'[t] = IF t \in woken THEN "ready" ELSE Status[t]
  BY <1>3, NextStatus
<1>5. \A t \in Threads : Chan'[t] = IF t \in woken THEN NULL ELSE Chan[t]
  BY <1>3, NextStatus
<1>6. /\ Status' = [t \in Threads |-> IF t \in woken THEN "ready" ELSE Status[t]]
      /\ Chan' = [t \in Threads |-> IF t \in woken THEN NULL ELSE Chan[t]]
  BY <1>4, <1>5 DEF Status, Chan
<1> QED
  BY <1>3, <1>6 DEF AbsThreads!Wake, Status, Chan, woken

LEMMA PrioStep ==
    ASSUME SchedInv, NEW t \in Threads, NEW p \in PrioArgs, SetPrio(t, p)
    PROVE  [AbsThreads!Next]_(AbsThreads!vars)
<1> USE SchedAssumption DEF SchedAssumption
<1>1. UNCHANGED <<state, ident>>
  BY DEF SetPrio
<1>2. CASE p > PRIO_MAX \/ prio[t] = p
  BY <1>1, <1>2, Stutter DEF SetPrio
<1>3. CASE ~(p > PRIO_MAX \/ prio[t] = p)
  <2>1. prio' = [prio EXCEPT ![t] = p]
    BY <1>3 DEF SetPrio
  <2>2. p \in Prios
    BY <1>3 DEF Prios, REALTIME, PRIO_MAX, BESTEFFORT
  <2>3. state[t] = "running" /\ state[t] \in States
    BY OnCpuRuns DEF SetPrio, SchedInv, TypeOK
  <2>4. Status[t] = "running"
    BY <2>3, StatusFacts
  <2>5. Status' = Status /\ Chan' = Chan
    BY <1>1 DEF Status, StatusOf, Chan
  <2>6. AbsThreads!ChangePrio(t, p)
    BY <2>1, <2>4, <2>5
    DEF AbsThreads!ChangePrio, AbsThreads!Running, Status, Chan
  <2> QED
    BY <2>2, <2>6 DEF AbsThreads!Next
<1> QED
  BY <1>2, <1>3

\* The thread that scheduler() takes off its queue is ready, or was running and
\* runs on; either way nobody who could run has a better priority.
LEMMA SwitchStep ==
    ASSUME SchedInv, PendSV PROVE [AbsThreads!Next]_(AbsThreads!vars)
<1> USE SchedAssumption DEF SchedAssumption
<1>1. /\ state \in [Threads -> States] /\ prio \in [Threads -> Prios]
      /\ \A t \in Threads : state[t] = "running" => t = curthread
      /\ curthread \in Threads \union {NoThread}
  BY DEF SchedInv, TypeOK, QueuesExact
<1>2. UNCHANGED <<ident, prio>>
  BY DEF PendSV
<1>3. /\ RunqBack \in [Prios -> Seq(Threads)]
      /\ StateBack \in [Threads -> States]
      /\ \A p \in Prios : NoDuplicates(RunqBack[p])
      /\ \A p \in Prios, t \in Threads :
            Contains(RunqBack[p], t) <=> (StateBack[t] = "runq" /\ prio[t] = p)
  BY PutBack
<1>4. \A t \in Threads :
         StateBack[t] = IF state[t] = "running" THEN "runq" ELSE state[t]
  <2>1. CASE Displaced
    BY <1>1, <2>1 DEF StateBack, Displaced
  <2>2. CASE ~Displaced
    BY <1>1, <2>2 DEF StateBack, Displaced
  <2> QED
    BY <2>1, <2>2
<1>5. ASSUME Idle, \A p \in Prios : RunqBack[p] = <<>>
      PROVE  UNCHANGED AbsThreads!vars
  <2>1. \A t \in Threads : StateBack[t] # "runq"
    BY <1>1, <1>3, <1>5, EmptyQueue
  <2>2. state' = state
    BY <1>1, <1>3, <1>4, <1>5, <2>1 DEF Idle
  <2> QED
    BY <1>2, <2>2, Stutter
<1>6. ASSUME NEW p \in Prios, IsBest(p, RunqBack), Dispatch(Head(RunqBack[p]))
      PROVE  [AbsThreads!Next]_(AbsThreads!vars)
  <2> DEFINE n == Head(RunqBack[p])
  <2>1. /\ RunqBack[p] \in Seq(Threads) /\ RunqBack[p] # <<>>
        /\ NoDuplicates(RunqBack[p])
    BY <1>3, <1>6 DEF IsBest
  <2>2. n \in Threads /\ Contains(RunqBack[p], n)
    BY <2>1, HeadTailProperties, TailFacts
  <2>3. StateBack[n] = "runq" /\ prio[n] = p
    BY <1>3, <2>2
  <2>4. state' = [StateBack EXCEPT ![n] = "running"]
    BY <1>6 DEF Dispatch
  <2> HIDE DEF n
  <2>5. \A t \in Threads :
           state'[t] = IF t = n THEN "running"
                       ELSE IF state[t] = "running" THEN "runq" ELSE state[t]
    BY <1>3, <1>4, <2>2, <2>4
  <2>6. CASE state[n] = "running"
    <3>1. state' = state
      BY <1>1, <1>3, <2>2, <2>4, <2>5, <2>6
    <3> QED
      BY <1>2, <3>1, Stutter
  <2>7. CASE state[n] # "running"
    <3>1. state[n] = "runq"
      BY <1>4, <2>2, <2>3, <2>7
    <3>2. ASSUME NEW t \in Threads, state[t] \in {"runq", "running"}
          PROVE  prio[n] <= prio[t]
      <4>1. Contains(RunqBack[prio[t]], t) /\ prio[t] \in Prios
        BY <1>1, <1>3, <1>4, <3>2
      <4>2. RunqBack[prio[t]] # <<>>
        BY <4>1, EmptyQueue
      <4> QED
        BY <1>6, <2>3, <4>1, <4>2 DEF IsBest
    <3>3. \A t \in Threads :
             /\ Status'[t] = IF t = n THEN "running"
                             ELSE IF Status[t] = "running" THEN "ready"
                             ELSE Status[t]
             /\ Chan'[t] = Chan[t]
      BY <1>1, <1>2, <2>5, <3>1, StatusFacts, NextStatus DEF Chan
    <3>4. /\ Status' = [t \in Threads |->
                           IF t = n THEN "running"
                           ELSE IF Status[t] = "running" THEN "ready"
                           ELSE Status[t]]
          /\ Chan' = Chan
      BY <3>3 DEF Status, Chan
    <3>5. Status[n] = "ready"
      BY <1>1, <2>2, <3>1, StatusFacts
    <3>6. \A t \in Threads :
             Status[t] = "ready" \/ Status[t] = "running" => prio[n] <= prio[t]
      BY <1>1, <3>2, StatusFacts
    <3>7. AbsThreads!Switch(n)
      BY <1>2, <2>2, <3>4, <3>5, <3>6
      DEF AbsThreads!Switch, AbsThreads!Ready, AbsThreads!Running, Status, Chan
    <3> QED
      BY <2>2, <3>7 DEF AbsThreads!Next
  <2> QED
    BY <2>6, <2>7
<1> QED
  BY <1>5, <1>6 DEF PendSV

-----------------------------------------------------------------------------
LEMMA AbsThreadsInit == Init => AbsThreads!Init
<1> SUFFICES ASSUME Init PROVE AbsThreads!Init
  OBVIOUS
<1>1. \A t \in Threads : StatusOf(t) = "none"
  BY DEF Init, StatusOf
<1>2. Status = [t \in Threads |-> "none"] /\ Chan = [t \in Threads |-> NULL]
  BY <1>1 DEF Init, Status, Chan
<1> QED
  BY <1>2 DEF Init, AbsThreads!Init, Status, Chan

\* Every step of the scheduler is a step of ThreadSpec, or shows nothing.
LEMMA AbsThreadsStep ==
    ASSUME SchedInv, [Next]_vars PROVE [AbsThreads!Next]_(AbsThreads!vars)
<1>1. ASSUME NEW u \in Threads, BootThreadInit(u)
      PROVE  [AbsThreads!Next]_(AbsThreads!vars)
  <2>1. CASE Enqueue(u)
    BY <2>1, CreateStep DEF AbsThreads!Next
  <2>2. CASE UNCHANGED <<state, ident, prio>>
    BY <2>2, Stutter
  <2> QED
    BY <1>1, <2>1, <2>2 DEF BootThreadInit
<1>2. CASE EnterThreadMode
  BY <1>2, StartStep DEF AbsThreads!Next
<1>3. CASE HardFault \/ SysTick \/ UNCHANGED vars
  BY <1>3, Stutter DEF HardFault, SysTick, vars
<1>4. ASSUME NEW t \in Threads, Syscall(t)
      PROVE  [AbsThreads!Next]_(AbsThreads!vars)
  <2>1. CASE Yield(t)
    BY <2>1, Stutter DEF Yield
  <2>2. ASSUME NEW id \in Idents, NEW unchanged \in BOOLEAN,
               WaitCond(t, id, unchanged)
        PROVE  [AbsThreads!Next]_(AbsThreads!vars)
    <3>1. CASE unchanged = TRUE
      BY <2>2, <3>1, SleepingStep DEF AbsThreads!Next
    <3>2. CASE unchanged = FALSE
      BY <2>2, <3>2, Stutter DEF WaitCond
    <3> QED
      BY <3>1, <3>2
  <2>3. ASSUME NEW id \in Idents, Wakeup(t, id)
        PROVE  [AbsThreads!Next]_(AbsThreads!vars)
    BY <2>3, WakeStep DEF Wakeup, AbsThreads!Next
  <2>4. ASSUME NEW p \in PrioArgs, SetPrio(t, p)
        PROVE  [AbsThreads!Next]_(AbsThreads!vars)
    BY <2>4, PrioStep
  <2>5. ASSUME NEW u \in Threads, ThreadInit(t, u)
        PROVE  [AbsThreads!Next]_(AbsThreads!vars)
    BY <2>5, CreateStep DEF ThreadInit, AbsThreads!Next
  <2> QED
    BY <1>4, <2>1, <2>2, <2>3, <2>4, <2>5 DEF Syscall
<1>5. ASSUME NEW id \in Idents, IrqWakeup(id)
      PROVE  [AbsThreads!Next]_(AbsThreads!vars)
  BY <1>5, WakeStep DEF IrqWakeup, AbsThreads!Next
<1>6. CASE PendSV
  BY <1>6, SwitchStep
<1> QED
  BY <1>1, <1>2, <1>3, <1>4, <1>5, <1>6 DEF Next

\* The scheduler keeps its promise to the threads: nobody sleeps or wakes who
\* should not, and the processor goes to a thread of the best priority.
THEOREM SchedulerImplements == Spec => ImplementsThreadSpec
<1> QED
  BY SchedInvariant, AbsThreadsInit, AbsThreadsStep, PTL
  DEF Spec, ImplementsThreadSpec, AbsThreads!Spec
=============================================================================
