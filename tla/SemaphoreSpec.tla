--------------------------- MODULE SemaphoreSpec ----------------------------
(***************************************************************************)
(* What sema.h promises: a counter that is added to and subtracted from    *)
(* atomically, and a request that is granted, once, only when the counter  *)
(* covers all of it.                                                       *)
(***************************************************************************)
EXTENDS Naturals

CONSTANTS Threads, MaxCount

VARIABLES avail,  \* the counter
          demand  \* what each thread is waiting for, 0 when it is not

vars == <<avail, demand>>
Amounts == 1..MaxCount

Init == avail = 0 /\ demand = [t \in Threads |-> 0]

Request(t, n) ==
    /\ demand[t] = 0
    /\ demand' = [demand EXCEPT ![t] = n]
    /\ UNCHANGED avail

Grant(t) ==
    /\ demand[t] > 0 /\ avail >= demand[t]
    /\ avail' = avail - demand[t]
    /\ demand' = [demand EXCEPT ![t] = 0]

\* A successful attempt of a thread that does not wait.
Take(n) == avail >= n /\ avail' = avail - n /\ UNCHANGED demand

Release(n) == avail' = avail + n /\ UNCHANGED demand

Next ==
    \/ \E t \in Threads : Grant(t) \/ \E n \in Amounts : Request(t, n)
    \/ \E n \in Amounts : Take(n) \/ Release(n)

Spec == Init /\ [][Next]_vars
=============================================================================
