-------------------------------- MODULE Spi --------------------------------
(***************************************************************************)
(* The SPI master, src/src/soc/kinetis/dspi.c: transfers queued by threads *)
(* and by completion callbacks, the interrupt handler that feeds and       *)
(* drains the FIFOs of the controller, and the controller.                 *)
(*                                                                         *)
(* A scatter-gather list (src/src/common/sg.c) is the number of bytes left *)
(* in it; a frame on the wire is its number in its transfer and whether it *)
(* carries EOQ.                                                            *)
(***************************************************************************)
EXTENDS Naturals, Sequences

CONSTANTS
    SpiCtxs,      \* the struct spi_ctx_bare of the program
    SpiLengths,   \* the transfers asked for: [tx, rx], lengths of the two parts
    SpiDepth      \* entries of each FIFO

\* A transfer of no byte at all never ends: no frame, no EOQF.
ASSUME SpiAssumption ==
    /\ SpiDepth \in Nat \ {0}
    /\ SpiLengths \subseteq [tx : Nat, rx : Nat] \ {[tx |-> 0, rx |-> 0]}

VARIABLES
    spiQueue,   \* the list from spi_ctx
    spiCtx,     \* what is left of each transfer: tx, rx, rx_tail; and its sizes
    spiPc,      \* "thread", or where SPI0_Handler is
    spiStatus,  \* status and flags, the handler's copies of SPI0_SR and RSER
    dspi        \* the controller: its FIFOs, shift register, EOQF, RSER

spiVars == <<spiQueue, spiCtx, spiPc, spiStatus, dspi>>

SpiMin(m, n) == IF m < n THEN m ELSE n

NoTransfer == [tx |-> 0, rx |-> 0, tail |-> 0, sent |-> 0, got |-> 0]
NoStatus == [rfdf |-> FALSE, tfff |-> FALSE, eoqf |-> FALSE, rxctr |-> 0]

-----------------------------------------------------------------------------
(* The controller.  The receive FIFO holds one frame more, which stays in  *)
(* the shift register and is lost to the next one (ROOE).                  *)

FreshDspi == [tx |-> <<>>, shift |-> <<>>, rx |-> <<>>, eoqf |-> FALSE,
              rie |-> FALSE, tie |-> FALSE]

SpiStopped == [dspi EXCEPT !.rie = FALSE, !.tie = FALSE, !.eoqf = FALSE]

\* Mutant: what is left of the last transfer stays in the receive FIFO.
SpiStarted_unread(transfer) ==
    [dspi EXCEPT !.tx = <<>>, !.eoqf = FALSE, !.tie = TRUE,
                 !.rie = transfer.rx > 0]

\* spi_start_xfer: both FIFOs and all flags cleared.
SpiStarted(transfer) ==
    [dspi EXCEPT !.tx = <<>>, !.rx = <<>>, !.eoqf = FALSE, !.tie = TRUE,
                 !.rie = transfer.rx > 0]

DspiLoad ==
    /\ dspi.shift = <<>> /\ dspi.tx # <<>> /\ ~dspi.eoqf
    /\ dspi' = [dspi EXCEPT !.shift = <<Head(dspi.tx)>>, !.tx = Tail(@),
                            !.rx = SubSeq(@, 1, SpiMin(Len(@), SpiDepth))]
    /\ UNCHANGED <<spiQueue, spiCtx, spiPc, spiStatus>>

DspiShift ==
    /\ dspi.shift # <<>>
    /\ dspi' = [dspi EXCEPT !.shift = <<>>, !.rx = @ \o dspi.shift,
                            !.eoqf = dspi.shift[1].eoq]
    /\ UNCHANGED <<spiQueue, spiCtx, spiPc, spiStatus>>

-----------------------------------------------------------------------------
(* spi_queue_xfer_sg, by a thread or by a callback within the handler      *)

\* Mutant: one filler frame too few.
RxTail_short(len) == IF len.rx > len.tx + 1 THEN len.rx - len.tx - 1 ELSE 0

\* Filler frames, for what is to be received after all is sent.
RxTail(len) == IF len.rx > len.tx THEN len.rx - len.tx ELSE 0

SpiQueue(c, len) ==
    /\ spiPc \in {"thread", "callback"}
    /\ \A i \in 1..Len(spiQueue) : spiQueue[i] # c      \* ctx->queued
    /\ spiCtx' = [spiCtx EXCEPT ![c] =
                     [tx |-> len.tx, rx |-> len.rx, tail |-> RxTail(len),
                      sent |-> 0, got |-> 0]]
    /\ spiQueue' = Append(spiQueue, c)
    /\ dspi' = IF spiQueue = <<>> THEN SpiStarted(len) ELSE dspi
    /\ UNCHANGED <<spiPc, spiStatus>>

-----------------------------------------------------------------------------
(* SPI0_Handler                                                            *)

SpiHead == spiCtx[Head(spiQueue)]

SpiInterrupt ==
    /\ spiPc = "thread"
    /\ \/ dspi.rie /\ dspi.rx # <<>>
       \/ dspi.tie /\ (Len(dspi.tx) < SpiDepth \/ dspi.eoqf)
    /\ spiPc' = IF spiQueue = <<>> THEN "thread" ELSE "read"
    /\ UNCHANGED <<spiQueue, spiCtx, spiStatus, dspi>>

SpiReadStatus ==
    /\ spiPc = "read"
    /\ spiStatus' = [rfdf  |-> dspi.rie /\ dspi.rx # <<>>,
                     tfff  |-> dspi.tie /\ Len(dspi.tx) < SpiDepth,
                     eoqf  |-> dspi.tie /\ dspi.eoqf,
                     rxctr |-> SpiMin(Len(dspi.rx), SpiDepth)]
    /\ spiPc' = "act"
    /\ UNCHANGED <<spiQueue, spiCtx, dspi>>

Drains == spiStatus.rfdf /\ SpiHead.rx > 0
Pushes == ~Drains /\ (SpiHead.tx > 0 \/ SpiHead.tail > 0) /\ spiStatus.tfff
Finishes ==
    ~Drains /\ ~Pushes /\ spiStatus.eoqf /\ SpiHead.tx = 0 /\ SpiHead.rx = 0

SpiDrain ==
    /\ spiPc = "act" /\ Drains
    /\ LET n == SpiMin(spiStatus.rxctr, SpiHead.rx)
       IN /\ spiCtx' = [spiCtx EXCEPT ![Head(spiQueue)] =
                            [SpiHead EXCEPT !.rx = @ - n, !.got = @ + n]]
          /\ dspi' = [dspi EXCEPT !.rx = SubSeq(@, n + 1, Len(@)),
                                  !.rie = @ /\ n # SpiHead.rx]
    /\ spiPc' = "read"
    /\ UNCHANGED <<spiQueue, spiStatus>>

\* The last byte that is sent carries EOQ, and no filler follows it.
SpiPush ==
    /\ spiPc = "act" /\ Pushes
    /\ LET after == IF SpiHead.tx > 0
                    THEN [SpiHead EXCEPT !.tx = @ - 1, !.sent = @ + 1]
                    ELSE [SpiHead EXCEPT !.tail = @ - 1, !.sent = @ + 1]
           more == after.tx > 0 \/ after.tail > 0
       IN /\ spiCtx' = [spiCtx EXCEPT ![Head(spiQueue)] = after]
          /\ dspi' = [dspi EXCEPT !.tx = Append(@, [number |-> SpiHead.sent,
                                                    eoq |-> ~more])]
    /\ spiPc' = "read"
    /\ UNCHANGED <<spiQueue, spiStatus>>

\* The next transfer is started before the callback of this one.
SpiFinish ==
    /\ spiPc = "act" /\ Finishes
    /\ spiQueue' = Tail(spiQueue)
    /\ dspi' = IF spiQueue' = <<>> THEN SpiStopped
               ELSE SpiStarted(spiCtx[Head(spiQueue')])
    /\ spiPc' = "callback"
    /\ UNCHANGED <<spiCtx, spiStatus>>

SpiExit ==
    /\ spiPc = "act" /\ ~Drains /\ ~Pushes /\ ~Finishes
    /\ spiPc' = "thread" /\ spiStatus' = NoStatus
    /\ UNCHANGED <<spiQueue, spiCtx, dspi>>

\* The callback returns, after what it queued.
SpiCallbackReturns ==
    /\ spiPc = "callback"
    /\ spiPc' = IF spiQueue = <<>> THEN "thread" ELSE "read"
    /\ spiStatus' = NoStatus
    /\ UNCHANGED <<spiQueue, spiCtx, dspi>>

SpiHandler ==
    SpiInterrupt \/ SpiReadStatus \/ SpiDrain \/ SpiPush \/ SpiFinish
        \/ SpiExit \/ SpiCallbackReturns

SpiInit ==
    /\ spiQueue = <<>>
    /\ spiCtx = [c \in SpiCtxs |-> NoTransfer]
    /\ spiPc = "thread"
    /\ spiStatus = NoStatus
    /\ dspi = FreshDspi

SpiNext ==
    \/ \E c \in SpiCtxs, len \in SpiLengths : SpiQueue(c, len)
    \/ SpiHandler
    \/ DspiLoad
    \/ DspiShift

\* The handler and the wire make progress.
SpiFairness ==
    WF_spiVars(SpiHandler) /\ WF_spiVars(DspiLoad) /\ WF_spiVars(DspiShift)

SpiSpec == SpiInit /\ [][SpiNext]_spiVars /\ SpiFairness

-----------------------------------------------------------------------------
(* Properties                                                              *)

\* As long as a transfer still receives, the frames between the controller's
\* pins and the handler are exactly the ones pushed and not yet received, in
\* order: none is lost to an overrun, however late the handler gets to run,
\* and none of an earlier transfer is taken for one of this.
SpiInStep ==
    spiPc # "callback" /\ spiQueue # <<>> /\ SpiHead.rx > 0 =>
        LET frames == dspi.rx \o dspi.shift \o dspi.tx
        IN [i \in 1..Len(frames) |-> frames[i].number]
               = [i \in 1..SpiHead.sent - SpiHead.got |-> SpiHead.got + i - 1]

\* Every transfer that is queued ends, whatever the lengths of its two parts
\* and whoever queues what after it.
SpiQueued(c) == \E i \in 1..Len(spiQueue) : spiQueue[i] = c
SpiEnds == \A c \in SpiCtxs : []<>~SpiQueued(c)
=============================================================================
