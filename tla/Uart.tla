-------------------------------- MODULE Uart --------------------------------
(***************************************************************************)
(* The UART driver: the transfer queues of src/src/soc/kinetis/uart.c on   *)
(* the port with FIFOs of src/src/soc/kinetis/uart-fifo.c.                 *)
(*                                                                         *)
(* irq_handler is modelled byte by byte: the line moves on between bytes,  *)
(* and completion callbacks queue and abort transfers in the middle of the *)
(* loops.  Bytes are counted; any one received may be the terminator of    *)
(* uart_read_until.                                                        *)
(***************************************************************************)
EXTENDS Naturals, Sequences

CONSTANTS
    UartCtxs,       \* the struct uart_trans_ctx of the program
    UartLengths,    \* the lengths of the transfers asked for
    UartDepth,      \* entries of each FIFO
    UartWatermark,  \* TDRE: at most so many entries in the transmit FIFO
    UartMoves,      \* bytes the line moves, at most, while the handler runs once
    UartErrors      \* framing errors, at most

\* A transfer of length zero would run to 2^32 bytes: remaining is decremented
\* before it is tested.
ASSUME UartAssumption ==
    /\ UartLengths \subseteq Nat \ {0}
    /\ UartDepth \in Nat \ {0}
    /\ UartWatermark \in 0..UartDepth
    /\ UartMoves \in Nat /\ UartErrors \in Nat

VARIABLES
    uartTx, uartRx,   \* tx_queue and rx_queue
    uartLeft,         \* ctx->remaining of each transfer
    uartPc,           \* "thread", or where irq_handler is
    uartS1,           \* irq_handler's copy of TDRE and FE; moves left to the line
    uart              \* the port: FIFOs, TIE, RIE, FE and the errors so far

uartVars == <<uartTx, uartRx, uartLeft, uartPc, uartS1, uart>>

UartHas(queue, c) == \E i \in 1..Len(queue) : queue[i] = c
UartWithout(queue, c) == SelectSeq(queue, LAMBDA d : d # c)

Tdre == uart.tx <= UartWatermark

-----------------------------------------------------------------------------
(* uart.c, called by threads and by completion callbacks                   *)

UartCalls == uartPc \in {"thread", "tx_cb", "rx_cb"}

\* Mutant: only the interrupt for received bytes is enabled.
UartStart_rx_only(tx, rx) == uart' = [uart EXCEPT !.rie = @ \/ rx # <<>>]

\* uart-fifo.c, start: called when a queue gets its first transfer.
UartStart(tx, rx) ==
    uart' = [uart EXCEPT !.rie = @ \/ rx # <<>>, !.tie = @ \/ tx # <<>>]

\* uart_write, uart_read and uart_read_until, of a transfer that is not busy.
UartQueue(c, len, dir) ==
    /\ UartCalls /\ uartLeft[c] = 0
    /\ uartLeft' = [uartLeft EXCEPT ![c] = len]
    /\ uartTx' = IF dir = "write" THEN Append(uartTx, c) ELSE uartTx
    /\ uartRx' = IF dir = "read" THEN Append(uartRx, c) ELSE uartRx
    /\ IF (IF dir = "write" THEN uartTx ELSE uartRx) = <<>>
       THEN UartStart(uartTx', uartRx')
       ELSE UNCHANGED uart
    /\ UNCHANGED <<uartPc, uartS1>>

UartAbort(c) ==
    /\ UartCalls
    /\ UartHas(uartTx, c) \/ UartHas(uartRx, c)
    /\ uartTx' = UartWithout(uartTx, c)
    /\ uartRx' = UartWithout(uartRx, c)
    /\ uartLeft' = [uartLeft EXCEPT ![c] = 0]
    /\ UNCHANGED <<uartPc, uartS1, uart>>

-----------------------------------------------------------------------------
(* uart-fifo.c, irq_handler                                                *)

UartInterrupt ==
    /\ uartPc = "thread"
    /\ \/ uart.tie /\ Tdre
       \/ uart.rie /\ uart.rx > 0
    /\ uartS1' = [tdre |-> Tdre, fe |-> uart.fe, moves |-> UartMoves]
    /\ uartPc' = "tdre"
    /\ UNCHANGED <<uartTx, uartRx, uartLeft, uart>>

\* Without a transfer the interrupt is turned off.
UartTdre ==
    /\ uartPc = "tdre"
    /\ uartPc' = IF uartS1.tdre /\ uartTx # <<>> THEN "tx" ELSE "rdrf"
    /\ uart' = [uart EXCEPT !.tie = @ /\ ~(uartS1.tdre /\ uartTx = <<>>)]
    /\ UNCHANGED <<uartTx, uartRx, uartLeft, uartS1>>

\* start_tx: a byte, or the end of the loop.
UartSend ==
    /\ uartPc = "tx"
    /\ IF uart.tx < UartDepth /\ uartTx # <<>>
       THEN LET c == Head(uartTx)
            IN /\ uart' = [uart EXCEPT !.tx = @ + 1]
               /\ uartLeft' = [uartLeft EXCEPT ![c] = @ - 1]
               /\ uartTx' = IF uartLeft'[c] = 0 THEN Tail(uartTx) ELSE uartTx
               /\ uartPc' = IF uartLeft'[c] = 0 THEN "tx_cb" ELSE "tx"
       ELSE uartPc' = "rdrf" /\ UNCHANGED <<uart, uartLeft, uartTx>>
    /\ UNCHANGED <<uartRx, uartS1>>

UartRdrf ==
    /\ uartPc = "rdrf"
    /\ uartPc' = IF uart.rx > 0 /\ uartRx # <<>> THEN "rx" ELSE "fe"
    /\ uart' = [uart EXCEPT !.rie = @ /\ ~(uart.rx > 0 /\ uartRx = <<>>)]
    /\ UNCHANGED <<uartTx, uartRx, uartLeft, uartS1>>

\* start_rx: a byte, the last asked for or the terminator among them, or the end
\* of the loop.
UartReceive ==
    /\ uartPc = "rx"
    /\ IF uart.rx > 0 /\ uartRx # <<>>
       THEN \E stop \in BOOLEAN :
              LET c == Head(uartRx)
              IN /\ uartLeft[c] = 1 => stop
                 /\ uart' = [uart EXCEPT !.rx = @ - 1]
                 /\ uartLeft' = [uartLeft EXCEPT ![c] = IF stop THEN 0 ELSE @ - 1]
                 /\ uartRx' = IF stop THEN Tail(uartRx) ELSE uartRx
                 /\ uartPc' = IF stop THEN "rx_cb" ELSE "rx"
       ELSE uartPc' = "fe" /\ UNCHANGED <<uart, uartLeft, uartRx>>
    /\ UNCHANGED <<uartTx, uartS1>>

UartCallbackReturns ==
    /\ uartPc \in {"tx_cb", "rx_cb"}
    /\ uartPc' = IF uartPc = "tx_cb" THEN "tx" ELSE "rx"
    /\ UNCHANGED <<uartTx, uartRx, uartLeft, uartS1, uart>>

\* A framing error costs the byte that is read to clear it.
UartExit ==
    /\ uartPc = "fe"
    /\ uart' = IF ~uartS1.fe THEN uart
               ELSE [uart EXCEPT !.fe = FALSE,
                                 !.rx = IF @ = 0 THEN 0 ELSE @ - 1]
    /\ uartPc' = "thread"
    /\ uartS1' = [tdre |-> FALSE, fe |-> FALSE, moves |-> 0]
    /\ UNCHANGED <<uartTx, uartRx, uartLeft>>

UartHandler ==
    UartInterrupt \/ UartTdre \/ UartSend \/ UartRdrf \/ UartReceive
        \/ UartCallbackReturns \/ UartExit

-----------------------------------------------------------------------------
(* The line, slower than the handler.  A byte that finds the FIFO full is  *)
(* lost.                                                                   *)

LineMoves ==
    /\ uartPc = "thread" \/ uartS1.moves > 0
    /\ uartS1' = IF uartPc = "thread" THEN uartS1 ELSE [uartS1 EXCEPT !.moves = @ - 1]
    /\ UNCHANGED <<uartTx, uartRx, uartLeft, uartPc>>

LineOut ==
    /\ uart.tx > 0
    /\ uart' = [uart EXCEPT !.tx = @ - 1]
    /\ LineMoves

LineIn ==
    /\ uart.rx < UartDepth
    /\ uart' = [uart EXCEPT !.rx = @ + 1]
    /\ LineMoves

FramingError ==
    /\ uart.rx < UartDepth /\ uart.errors < UartErrors
    /\ uart' = [uart EXCEPT !.rx = @ + 1, !.fe = TRUE, !.errors = @ + 1]
    /\ LineMoves

UartInit ==
    /\ uartTx = <<>> /\ uartRx = <<>>
    /\ uartLeft = [c \in UartCtxs |-> 0]
    /\ uartPc = "thread"
    /\ uartS1 = [tdre |-> FALSE, fe |-> FALSE, moves |-> 0]
    /\ uart = [tx |-> 0, rx |-> 0, tie |-> FALSE, rie |-> FALSE,
               fe |-> FALSE, errors |-> 0]

UartNext ==
    \/ \E c \in UartCtxs, len \in UartLengths, dir \in {"read", "write"} :
          UartQueue(c, len, dir)
    \/ \E c \in UartCtxs : UartAbort(c)
    \/ UartHandler
    \/ LineOut
    \/ LineIn
    \/ FramingError

\* The handler and the line make progress, and while a read is queued bytes
\* keep coming; the line stands still for as long as a handler runs, so it is
\* enabled again and again, not continuously.
UartFairness ==
    /\ WF_uartVars(UartHandler)
    /\ SF_uartVars(LineOut)
    /\ SF_uartVars(uartRx # <<>> /\ LineIn)

-----------------------------------------------------------------------------
(* Properties                                                              *)

\* Every write, and every read while bytes keep coming, ends: whenever a queue
\* holds a transfer its interrupt is on, or is turned on by who put it there,
\* be it a thread, or a callback in the middle of the handler's loops, and
\* whatever was aborted there.
UartBusy(c) == UartHas(uartTx, c) \/ UartHas(uartRx, c)
UartEnds == \A c \in UartCtxs : []<>~UartBusy(c)
=============================================================================
