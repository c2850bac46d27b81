------------------------------ MODULE SpiFlash ------------------------------
(***************************************************************************)
(* The SPI flash driver, src/src/common/spiflash.c, on an SPI master that  *)
(* does one transfer of the device at a time and calls back (what Spi      *)
(* shows), and the flash chip.                                             *)
(*                                                                         *)
(* Interrupts come between the steps of a thread: it appends to the queue  *)
(* with interrupts off, but looks at the queue and starts what it saw      *)
(* there with interrupts on.  SPI callbacks run to completion.             *)
(***************************************************************************)
EXTENDS Naturals

CONSTANTS
    FlashTrans,     \* the struct spiflash_transaction of the program
    FlashThreads    \* the threads that use the driver

\* A transaction is not NULL.
ASSUME FlashAssumption == "none" \notin FlashTrans

\* get_id and read_page; get_status; program_page and the erase commands with
\* a callback to wait for, and without one; set_protection.
FlashKinds == {"read", "status", "write", "blind", "protect"}

VARIABLES
    flashQueue,    \* dev->queue
    flashTrans,    \* of each transaction: kind, next, flags.queued and .running
    flashBus,      \* the transfer of dev->flash_spi_ctx: step and transaction
    flashCb,       \* the transaction whose done_cb runs, or NoTrans
    flashPc,       \* of each thread: where in spiflash_schedule, and its trans
    flashPast,     \* history, see Overtaken and ChipLeft
    chip           \* the flash: write enable latches and the busy flag

flashVars == <<flashQueue, flashTrans, flashBus, flashCb, flashPc, flashPast, chip>>

NoTrans == "none"
NoBus == [step |-> "none", trans |-> NoTrans]
Outside == [at |-> "outside", trans |-> NoTrans]
FreshTrans == [kind |-> "read", next |-> NoTrans, queued |-> FALSE, running |-> FALSE]
FreshChip == [wel |-> FALSE, svel |-> FALSE, busy |-> FALSE]

-----------------------------------------------------------------------------
(* The queue                                                               *)

HasPrelude(kind) == kind \in {"write", "blind", "protect"}
FirstStep(kind) == IF HasPrelude(kind) THEN "prelude" ELSE "command"

\* Mutant: nobody waits for the end of a write.
WaitsBusy_never(kind) == FALSE

WaitsBusy(kind) == kind = "write"

\* The ends of the list: what dev->queue leads to is in every set that holds it
\* and its successors.
Ends(trans) ==
    {t \in FlashTrans :
        /\ trans[t].next = NoTrans
        /\ \A S \in SUBSET FlashTrans :
              flashQueue \in S /\ (\A u \in S : trans[u].next \in S \cup {NoTrans})
                  => t \in S}

\* The critical section of spiflash_queue_transaction, which never ends when
\* the list does not.
Appended(t, kind) ==
    LET trans == [flashTrans EXCEPT ![t] = [@ EXCEPT !.kind = kind, !.next = NoTrans,
                                                     !.queued = TRUE]]
    IN IF flashQueue = NoTrans THEN {trans}
       ELSE {[trans EXCEPT ![last].next = t] : last \in Ends(trans)}

HeadWith(t) == IF flashQueue = NoTrans THEN t ELSE flashQueue

\* The end of spiflash_schedule: a transfer is dropped while the SPI context of
\* the device is queued.
Started(t, trans) ==
    /\ flashTrans' = [trans EXCEPT ![t].running = TRUE]
    /\ flashBus' = IF flashBus # NoBus THEN flashBus
                   ELSE [step |-> FirstStep(trans[t].kind), trans |-> t]

\* spiflash_schedule when nothing comes between.
Scheduled(queue, trans) ==
    /\ flashQueue' = queue
    /\ IF queue = NoTrans \/ trans[queue].running
       THEN flashTrans' = trans /\ UNCHANGED flashBus
       ELSE Started(queue, trans)

-----------------------------------------------------------------------------
(* The threads                                                             *)

At(h, at) == flashCb = NoTrans /\ flashPc[h].at = at
Goes(h, at, t) == flashPc' = [flashPc EXCEPT ![h] = [at |-> at, trans |-> t]]

\* spiflash_queue_transaction from a thread, up to its call of spiflash_schedule.
FlashQueue(h, t, kind) ==
    /\ At(h, "outside") /\ ~flashTrans[t].queued
    /\ flashTrans' \in Appended(t, kind)
    /\ flashQueue' = HeadWith(t)
    /\ Goes(h, "looks", NoTrans)
    /\ UNCHANGED <<flashBus, flashCb, flashPast, chip>>

\* dev->queue is read and tested,
FlashLooks(h) ==
    /\ At(h, "looks")
    /\ IF flashQueue = NoTrans THEN Goes(h, "outside", NoTrans)
       ELSE Goes(h, "tests", flashQueue)
    /\ UNCHANGED <<flashQueue, flashTrans, flashBus, flashCb, flashPast, chip>>

\* then flags.running of what it pointed to,
FlashTests(h) ==
    /\ At(h, "tests")
    /\ IF flashTrans[flashPc[h].trans].running THEN Goes(h, "outside", NoTrans)
       ELSE Goes(h, "starts", flashPc[h].trans)
    /\ UNCHANGED <<flashQueue, flashTrans, flashBus, flashCb, flashPast, chip>>

\* A thread starts what is no longer the first transaction.
Overtaken(h) == flashPc[h].trans # flashQueue

\* and the transaction is started.
FlashStarts(h) ==
    /\ At(h, "starts")
    /\ Started(flashPc[h].trans, flashTrans)
    /\ Goes(h, "outside", NoTrans)
    /\ flashPast' = [flashPast EXCEPT !.raced = @ \/ Overtaken(h)]
    /\ UNCHANGED <<flashQueue, flashCb, chip>>

FlashSchedules(h) == FlashLooks(h) \/ FlashTests(h) \/ FlashStarts(h)

-----------------------------------------------------------------------------
(* The SPI callbacks                                                       *)

\* spiflash_transaction_done, up to its call of done_cb.
FlashDone(t) ==
    /\ flashQueue' = flashTrans[t].next
    /\ flashTrans' = [flashTrans EXCEPT ![t] = [@ EXCEPT !.queued = FALSE,
                                                         !.running = FALSE]]
    /\ flashBus' = NoBus
    /\ flashCb' = t

\* spiflash_queue_transaction from done_cb.
FlashCbQueues(t, kind) ==
    /\ flashCb # NoTrans /\ flashTrans[flashCb].kind # "blind"
    /\ ~flashTrans[t].queued
    /\ \E trans \in Appended(t, kind) : Scheduled(HeadWith(t), trans)
    /\ UNCHANGED <<flashCb, flashPc, flashPast, chip>>

\* The rest of spiflash_transaction_done.
FlashCallbackReturns ==
    /\ flashCb # NoTrans
    /\ flashCb' = NoTrans
    /\ Scheduled(flashQueue, flashTrans)
    /\ UNCHANGED <<flashPc, flashPast, chip>>

FlashContinue(step, t) ==
    /\ flashBus' = [step |-> step, trans |-> t]
    /\ UNCHANGED <<flashQueue, flashTrans, flashCb>>

\* spiflash_write_enabled_spi_cb.
WriteEnabled(t) == FlashContinue("command", t)

\* spiflash_transaction_dispatched_spi_cb.
Dispatched(t) ==
    IF WaitsBusy(flashTrans[t].kind) THEN FlashContinue("check", t) ELSE FlashDone(t)

\* Mutant: the test looks at the wrong byte of the answer, which is never 0.
CheckWriteCompleted_deaf(t) == FlashContinue("check", t)

\* spiflash_check_write_completed_spi_cb, on what the status read gave.
CheckWriteCompleted(t) ==
    IF ~chip.busy THEN FlashDone(t) ELSE FlashContinue("check", t)

-----------------------------------------------------------------------------
(* The chip takes a transfer, and the SPI master calls back.               *)

Writes == {"write", "blind"}

ChipTakes(step, kind) ==
    IF chip.busy THEN chip
    ELSE CASE step = "prelude" /\ kind \in Writes -> [chip EXCEPT !.wel = TRUE]
           [] step = "prelude" /\ kind = "protect" -> [chip EXCEPT !.svel = TRUE]
           [] step = "command" /\ kind \in Writes -> [chip EXCEPT !.busy = chip.wel]
           [] step = "command" /\ kind = "protect" -> [chip EXCEPT !.svel = FALSE]
           [] OTHER -> chip

\* A write that nobody waits for was taken, and no transaction has found the
\* chip ready since.
ChipLeft(step, kind) ==
    IF step = "command" /\ kind = "blind" /\ ~chip.busy /\ chip.wel THEN TRUE
    ELSE flashPast.blind /\ (chip.busy \/ step # FirstStep(kind))

FlashTransferEnds ==
    /\ flashBus # NoBus /\ flashCb = NoTrans
    /\ LET t == flashBus.trans
           kind == flashTrans[t].kind
       IN /\ chip' = ChipTakes(flashBus.step, kind)
          /\ flashPast' = [flashPast EXCEPT !.blind = ChipLeft(flashBus.step, kind)]
          /\ CASE flashBus.step = "prelude" -> WriteEnabled(t)
               [] flashBus.step = "command" -> Dispatched(t)
               [] flashBus.step = "check" -> CheckWriteCompleted(t)
    /\ UNCHANGED flashPc

ChipDone ==
    /\ chip.busy
    /\ chip' = [chip EXCEPT !.busy = FALSE, !.wel = FALSE]
    /\ UNCHANGED <<flashQueue, flashTrans, flashBus, flashCb, flashPc, flashPast>>

-----------------------------------------------------------------------------

FlashInit ==
    /\ flashQueue = NoTrans
    /\ flashTrans = [t \in FlashTrans |-> FreshTrans]
    /\ flashBus = NoBus
    /\ flashCb = NoTrans
    /\ flashPc = [h \in FlashThreads |-> Outside]
    /\ flashPast = [raced |-> FALSE, blind |-> FALSE]
    /\ chip = FreshChip

FlashNext ==
    \/ \E t \in FlashTrans, kind \in FlashKinds :
          \/ FlashCbQueues(t, kind)
          \/ \E h \in FlashThreads : FlashQueue(h, t, kind)
    \/ \E h \in FlashThreads : FlashSchedules(h)
    \/ FlashCallbackReturns
    \/ FlashTransferEnds
    \/ ChipDone

FlashSpec == FlashInit /\ [][FlashNext]_flashVars

\* Transfers and writes end, callbacks return, threads go on.
FlashFairness ==
    /\ WF_flashVars(FlashTransferEnds \/ FlashCallbackReturns)
    /\ WF_flashVars(ChipDone)
    /\ \A h \in FlashThreads : WF_flashVars(FlashSchedules(h))

-----------------------------------------------------------------------------
(* Properties                                                              *)

\* The chip takes everything the driver sends it: no command but a status read
\* comes while it writes, no write comes without its enabling prelude, whatever
\* transactions are queued one behind the other, from threads and callbacks.
\* Exceptions: the transaction after a write without a callback, and all after
\* a thread has started a transaction that was overtaken.
FlashTakes ==
    flashBus # NoBus /\ ~flashPast.raced /\ ~flashPast.blind =>
        LET kind == flashTrans[flashBus.trans].kind
        IN /\ flashBus.step # "check" /\ kind # "status" => ~chip.busy
           /\ flashBus.step = "command" /\ kind \in Writes => chip.wel
           /\ flashBus.step = "command" /\ kind = "protect" => chip.svel

\* Every transaction that is queued ends and is called back: no step of the
\* chain of SPI transfers is dropped, and the queue is never left with a
\* transaction that nobody starts, unless a thread was overtaken.
FlashEnds == \A t \in FlashTrans : []<>(~flashTrans[t].queued \/ flashPast.raced)

\* What the flags mean, with no exception (spiflash.h:22, "on the queue (either
\* running or waiting to start)"): a transaction that is running is queued.
RunningIsQueued ==
    \A t \in FlashTrans : flashTrans[t].running => flashTrans[t].queued
=============================================================================
