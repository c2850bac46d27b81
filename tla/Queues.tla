------------------------------- MODULE Queues -------------------------------
(***************************************************************************)
(* The linked lists of queue.h (STAILQ) as sequences without duplicates.   *)
(* Insertion and removal at the ends are Append, \o, Head and Tail; this   *)
(* module adds removal from the middle.  It is written without RECURSIVE   *)
(* operators so that it can be proved about (QueueLemmas).                 *)
(***************************************************************************)
EXTENDS Naturals, Sequences, SequencesExt

\* Each thread has one queue link, so it can be on a queue once.
NoDuplicates(q) == \A i, j \in 1..Len(q) : q[i] = q[j] => i = j

\* The members of q that belong to the set W, in the order of q: what
\* STAILQ_REMOVE of all the others leaves.
KeptUpTo(q, W) ==
    LET kept[i \in 0..Len(q)] ==
            IF i = 0 THEN <<>>
            ELSE IF q[i] \in W THEN Append(kept[i - 1], q[i])
            ELSE kept[i - 1]
    IN kept
Keep(q, W) == KeptUpTo(q, W)[Len(q)]
=============================================================================
