-------------------------------- MODULE I2c --------------------------------
(***************************************************************************)
(* The I2C master, src/src/soc/kinetis/i2c.c: transactions queued by       *)
(* threads and callbacks, the interrupt handler that takes them byte by    *)
(* byte, the controller, and devices that may not acknowledge.             *)
(***************************************************************************)
EXTENDS Naturals, Sequences

CONSTANTS
    I2cTrans,     \* the struct i2c_transaction of the program
    I2cRequests   \* what is asked for: direction, length and stop

\* A read of length zero never ends: length - 1 is the largest size_t.
ASSUME I2cAssumption ==
    /\ I2cRequests \subseteq [read : BOOLEAN, length : Nat, stop : BOOLEAN]
    /\ \A r \in I2cRequests : r.read => r.length > 0

VARIABLES
    i2cQueue,   \* the list from ctx->cur
    i2cReq,     \* of each transaction: direction, length, stop
    i2c,        \* the rest of the context: state and index
    i2cPc,      \* "run", or what the processor is busy with
    i2cPrev,    \* the transaction whose callback is to run, or NoI2c
    i2cHw       \* the controller and the bus

i2cVars == <<i2cQueue, i2cReq, i2c, i2cPc, i2cPrev, i2cHw>>

NoI2c == "none"

\* wire is what is on the wire: an address or byte to send, or one to receive;
\* int is IICIF, and rxak the answer of the device.
FreshI2c == [mst |-> FALSE, busy |-> FALSE, txak |-> FALSE, wire |-> "none",
             int |-> FALSE, rxak |-> FALSE]

I2cHas(t) == \E k \in 1..Len(i2cQueue) : i2cQueue[k] = t
Cur == i2cReq[Head(i2cQueue)]

-----------------------------------------------------------------------------
(* Beginning and ending transactions                                       *)

\* i2c_start_transaction: it waits until the bus is free.
I2cStart ==
    /\ i2cPc = "start" /\ ~i2cHw.busy
    /\ i2c' = [state |-> IF Cur.read THEN "rx_start" ELSE "tx", index |-> 0]
    /\ i2cHw' = [i2cHw EXCEPT !.mst = TRUE, !.busy = TRUE, !.wire = "send",
                              !.txak = Cur.read /\ Cur.length = 1]
    /\ i2cPc' = IF i2cPrev = NoI2c THEN "run" ELSE "callback"
    /\ UNCHANGED <<i2cQueue, i2cReq, i2cPrev>>

\* i2c_queue: in a critical section until the first transaction is started.
I2cQueue(t, r) ==
    /\ i2cPc \in {"run", "callback"} /\ ~I2cHas(t)
    /\ i2cReq' = [i2cReq EXCEPT ![t] = r]
    /\ i2cQueue' = Append(i2cQueue, t)
    /\ i2cPc' = IF i2cQueue = <<>> THEN "start" ELSE i2cPc
    /\ UNCHANGED <<i2c, i2cPrev, i2cHw>>

\* i2c_end_transaction: STOP, or else a repeated START, which leaves the bus
\* busy and the controller its master.
Released ==
    IF Len(i2cQueue) = 1 \/ Cur.stop THEN [i2cHw EXCEPT !.mst = FALSE] ELSE i2cHw

\* i2c_end_transaction and i2c_transaction_next: the next transaction is
\* started before the callback runs.
EndTransaction ==
    /\ i2cHw' = [Released EXCEPT !.int = FALSE]
    /\ i2cQueue' = Tail(i2cQueue)
    /\ i2cPrev' = Head(i2cQueue)
    /\ i2c' = IF i2cQueue' = <<>> THEN [i2c EXCEPT !.state = "idle"] ELSE i2c
    /\ i2cPc' = IF i2cQueue' = <<>> THEN "callback" ELSE "start"

I2cCallbackReturns ==
    /\ i2cPc = "callback"
    /\ i2cPc' = "run" /\ i2cPrev' = NoI2c
    /\ UNCHANGED <<i2cQueue, i2cReq, i2c, i2cHw>>

-----------------------------------------------------------------------------
(* i2c_interrupt_handler, by state                                         *)

I2cInterrupt(state) == i2cPc = "run" /\ i2cHw.int /\ i2c.state = state

\* Mutant: a byte that is refused is sent again.
I2cTx_again ==
    /\ I2cInterrupt("tx")
    /\ IF i2c.index = Cur.length /\ ~i2cHw.rxak
       THEN EndTransaction
       ELSE /\ i2c' = [i2c EXCEPT !.index = IF i2cHw.rxak THEN @ ELSE @ + 1]
            /\ i2cHw' = [i2cHw EXCEPT !.int = FALSE, !.wire = "send"]
            /\ UNCHANGED <<i2cQueue, i2cPc, i2cPrev>>
    /\ UNCHANGED i2cReq

\* All sent, or the device does not acknowledge the last byte or its address.
I2cTx ==
    /\ I2cInterrupt("tx")
    /\ IF i2c.index = Cur.length \/ i2cHw.rxak
       THEN EndTransaction
       ELSE /\ i2c' = [i2c EXCEPT !.index = @ + 1]
            /\ i2cHw' = [i2cHw EXCEPT !.int = FALSE, !.wire = "send"]
            /\ UNCHANGED <<i2cQueue, i2cPc, i2cPrev>>
    /\ UNCHANGED i2cReq

\* Reading the data register starts the reception of the first byte.
I2cRxStart ==
    /\ I2cInterrupt("rx_start")
    /\ IF i2cHw.rxak
       THEN EndTransaction
       ELSE /\ i2c' = [i2c EXCEPT !.state = "rx"]
            /\ i2cHw' = [i2cHw EXCEPT !.int = FALSE, !.wire = "receive"]
            /\ UNCHANGED <<i2cQueue, i2cPc, i2cPrev>>
    /\ UNCHANGED i2cReq

\* Mutant: the acknowledge is turned off a byte too late.
LastButOne_late(index, length) == index = length - 1

LastButOne(index, length) == index + 2 = length

\* Reading the data register starts the reception of the next byte, unless the
\* transaction has ended.
I2cRx ==
    /\ I2cInterrupt("rx")
    /\ IF i2c.index = Cur.length - 1
       THEN EndTransaction
       ELSE /\ i2c' = [i2c EXCEPT !.index = @ + 1]
            /\ i2cHw' = [i2cHw EXCEPT
                           !.int = FALSE, !.wire = "receive",
                           !.txak = @ \/ LastButOne(i2c.index, Cur.length)]
            /\ UNCHANGED <<i2cQueue, i2cPc, i2cPrev>>
    /\ UNCHANGED i2cReq

-----------------------------------------------------------------------------
(* The controller and the bus                                              *)

\* A byte is done; a device acknowledges it, or not.
I2cByte ==
    /\ i2cHw.wire # "none"
    /\ \E nack \in BOOLEAN :
         i2cHw' = [i2cHw EXCEPT !.wire = "none", !.int = TRUE,
                                !.rxak = IF i2cHw.wire = "send" THEN nack ELSE @]
    /\ UNCHANGED <<i2cQueue, i2cReq, i2c, i2cPc, i2cPrev>>

\* The STOP condition is on the bus, and the bus is free.
I2cStopped ==
    /\ i2cHw.busy /\ ~i2cHw.mst
    /\ i2cHw' = [i2cHw EXCEPT !.busy = FALSE]
    /\ UNCHANGED <<i2cQueue, i2cReq, i2c, i2cPc, i2cPrev>>

I2cInit ==
    /\ i2cQueue = <<>>
    /\ i2cReq = [t \in I2cTrans |-> [read |-> FALSE, length |-> 0, stop |-> TRUE]]
    /\ i2c = [state |-> "idle", index |-> 0]
    /\ i2cPc = "run"
    /\ i2cPrev = NoI2c
    /\ i2cHw = FreshI2c

I2cHandler == I2cTx \/ I2cRxStart \/ I2cRx \/ I2cCallbackReturns

I2cNext ==
    \/ \E t \in I2cTrans, r \in I2cRequests : I2cQueue(t, r)
    \/ I2cStart
    \/ I2cHandler
    \/ I2cByte
    \/ I2cStopped

I2cSpec == I2cInit /\ [][I2cNext]_i2cVars

\* The processor and the bus make progress.
I2cFairness ==
    /\ WF_i2cVars(I2cStart)
    /\ WF_i2cVars(I2cHandler)
    /\ WF_i2cVars(I2cByte)
    /\ WF_i2cVars(I2cStopped)

-----------------------------------------------------------------------------
(* Properties                                                              *)

\* While a byte is received, the controller is set to refuse it exactly when
\* it is the last one asked for, so that the device lets go of the bus and
\* sends no byte less and no byte more; also for one byte and for two, and
\* whatever transaction came before.
I2cNackLast ==
    i2cHw.wire = "receive" => (i2cHw.txak <=> i2c.index + 1 = Cur.length)

\* Every transaction that is queued ends, acknowledged or not.
I2cEnds == \A t \in I2cTrans : []<>~I2cHas(t)

\* The driver never waits for the bus to become free while it holds the bus
\* itself: the next transaction is started, after a STOP or, when the one before
\* asked for none, with a repeated START (i2c.c:49, "send STOP condition if
\* requested or nothing left to send, otherwise repeat START condition").
I2cRestarts == i2cPc = "start" => ~i2cHw.mst
=============================================================================
