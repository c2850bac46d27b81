---------------------------- MODULE ThreadSpec ------------------------------
(***************************************************************************)
(* What the scheduler promises to the threads, without its queues, its     *)
(* time slices and its pending exception: at most one thread runs, a       *)
(* thread sleeps on a channel until somebody wakes that channel, and a     *)
(* thread is put on the processor only if no ready thread has a better     *)
(* priority.                                                               *)
(***************************************************************************)
EXTENDS Naturals

CONSTANTS Threads, initial, Idents, NULL, Prios, Default

VARIABLES status,  \* "none", "ready", "waiting" or "running"
          prio,    \* smaller is better
          chan     \* the channel a waiting thread sleeps on, or NULL

vars == <<status, prio, chan>>

Running == {t \in Threads : status[t] = "running"}
Ready == {t \in Threads : status[t] = "ready"}

Init ==
    /\ status = [t \in Threads |-> "none"]
    /\ prio = [t \in Threads |-> Default]
    /\ chan = [t \in Threads |-> NULL]

Create(u) ==
    /\ status[u] = "none"
    /\ status' = [status EXCEPT ![u] = "ready"]
    /\ prio' = [prio EXCEPT ![u] = Default]
    /\ UNCHANGED chan

\* main itself becomes a thread.
Start ==
    /\ status[initial] = "none" /\ Running = {}
    /\ status' = [status EXCEPT ![initial] = "running"]
    /\ prio' = [prio EXCEPT ![initial] = Default]
    /\ UNCHANGED chan

Sleep(t, id) ==
    /\ t \in Running
    /\ status' = [status EXCEPT ![t] = "waiting"]
    /\ chan' = [chan EXCEPT ![t] = id]
    /\ UNCHANGED prio

\* A wakeup readies every sleeper of the channel, and nobody else.
Wake(id) ==
    LET woken == {t \in Threads : status[t] = "waiting" /\ chan[t] = id} IN
    /\ status' = [t \in Threads |->
                    IF t \in woken THEN "ready" ELSE status[t]]
    /\ chan' = [t \in Threads |-> IF t \in woken THEN NULL ELSE chan[t]]
    /\ UNCHANGED prio

ChangePrio(t, p) ==
    /\ t \in Running
    /\ prio' = [prio EXCEPT ![t] = p]
    /\ UNCHANGED <<status, chan>>

\* The processor goes to u; a running thread is ready again.
Switch(u) ==
    /\ u \in Ready
    /\ \A t \in Ready \union Running : prio[u] <= prio[t]
    /\ status' = [t \in Threads |->
                    IF t = u THEN "running"
                    ELSE IF status[t] = "running" THEN "ready"
                    ELSE status[t]]
    /\ UNCHANGED <<prio, chan>>

Next ==
    \/ Start
    \/ \E u \in Threads : Create(u) \/ Switch(u)
    \/ \E t \in Threads, id \in Idents : Sleep(t, id)
    \/ \E id \in Idents : Wake(id)
    \/ \E t \in Threads, p \in Prios : ChangePrio(t, p)

Spec == Init /\ [][Next]_vars
=============================================================================
