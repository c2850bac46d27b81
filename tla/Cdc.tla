-------------------------------- MODULE Cdc --------------------------------
(***************************************************************************)
(* The transmit side of the USB serial port, src/src/usb/cdc-acm.c: what   *)
(* the program writes is collected in outbuf, and the same buffer is the   *)
(* packet the USB controller takes when the host asks.                     *)
(*                                                                         *)
(* Bytes are numbered in the order in which cdc_write accepts them, modulo *)
(* CdcNumbers.                                                             *)
(***************************************************************************)
EXTENDS Naturals, Sequences

CONSTANTS
    CdcSize,      \* CDC_TX_SIZE: sizeof(outbuf), and the size of a packet
    CdcNumbers    \* numbers for bytes, more than outbuf holds

ASSUME CdcAssumption ==
    /\ CdcSize \in Nat \ {0}
    /\ CdcNumbers \in Nat /\ CdcNumbers > CdcSize

VARIABLES
    outbuf,        \* the bytes in outbuf; out_pos is their number
    out_queued,    \* whether a transfer is queued
    cdcUsb,        \* the transfer: its length, and whether the host has taken it
    cdcWritten,    \* the number of the next byte accepted
    cdcExpected,   \* the number of the next byte the host expects
    cdcSent        \* whether data_sent_cb runs

cdcVars == <<outbuf, out_queued, cdcUsb, cdcWritten, cdcExpected, cdcSent>>

CdcMin(m, n) == IF m < n THEN m ELSE n

NoPacket == [len |-> 0, taken |-> FALSE]

\* The bytes first, first + 1, ..., n of them.
CdcBytes(first, n) == [i \in 1..n |-> (first + i - 1) % CdcNumbers]

\* The label queue of cdc_tx_done: send what is there unless a transfer is
\* queued.
CdcQueue(buf, queued, usb) ==
    /\ outbuf' = buf
    /\ out_queued' = (queued \/ buf # <<>>)
    /\ cdcUsb' = IF buf # <<>> /\ ~queued THEN [NoPacket EXCEPT !.len = Len(buf)]
                 ELSE usb

\* cdc_write, of a thread or of data_sent_cb, takes what there is room for.
CdcWrite(len) ==
    LET n == CdcMin(len, CdcSize - Len(outbuf))
    IN /\ CdcQueue(outbuf \o CdcBytes(cdcWritten, n), out_queued, cdcUsb)
       /\ cdcWritten' = (cdcWritten + n) % CdcNumbers
       /\ UNCHANGED <<cdcExpected, cdcSent>>

\* Mutant: what was written since the transfer was queued is dropped.
SentOff_all(buf, len) == <<>>

\* The memcpy down of what is behind the bytes sent, with out_pos -= out_sent.
SentOff(buf, len) == SubSeq(buf, len + 1, Len(buf))

\* cdc_tx_done at the end of a transfer, up to data_sent_cb.
CdcTxDone ==
    /\ cdcUsb.taken /\ ~cdcSent
    /\ outbuf' = SentOff(outbuf, cdcUsb.len)
    /\ out_queued' = FALSE
    /\ cdcUsb' = NoPacket
    /\ cdcSent' = TRUE
    /\ UNCHANGED <<cdcWritten, cdcExpected>>

\* The rest of cdc_tx_done.
CdcSentReturns ==
    /\ cdcSent /\ cdcSent' = FALSE
    /\ CdcQueue(outbuf, out_queued, cdcUsb)
    /\ UNCHANGED <<cdcWritten, cdcExpected>>

\* The host takes the packet; the controller reads it from outbuf.
CdcHostReads ==
    /\ cdcUsb.len > 0 /\ ~cdcUsb.taken
    /\ cdcUsb' = [cdcUsb EXCEPT !.taken = TRUE]
    /\ cdcExpected' = (cdcExpected + cdcUsb.len) % CdcNumbers
    /\ UNCHANGED <<outbuf, out_queued, cdcWritten, cdcSent>>

\* A bus reset and cdc_init: the transfer is forgotten, outbuf is not.  If the
\* host had taken the packet and cdc_tx_done had not run, it is sent again.
CdcReset ==
    /\ ~cdcSent
    /\ out_queued' = FALSE
    /\ cdcUsb' = NoPacket
    /\ cdcExpected' = IF cdcUsb.taken
                      THEN (cdcExpected + CdcNumbers - cdcUsb.len) % CdcNumbers
                      ELSE cdcExpected
    /\ UNCHANGED <<outbuf, cdcWritten, cdcSent>>

CdcInit ==
    /\ outbuf = <<>>
    /\ out_queued = FALSE
    /\ cdcUsb = NoPacket
    /\ cdcWritten = 0 /\ cdcExpected = 0
    /\ cdcSent = FALSE

CdcNext ==
    \/ \E len \in 1..CdcSize + 1 : CdcWrite(len)
    \/ CdcTxDone
    \/ CdcSentReturns
    \/ CdcHostReads
    \/ CdcReset

CdcSpec == CdcInit /\ [][CdcNext]_cdcVars

-----------------------------------------------------------------------------
(* Properties                                                              *)

\* The host gets every byte cdc_write accepted, once and in order, however
\* writes, packets and completions interleave: outbuf holds, from the next byte
\* the host expects on, all bytes up to the last accepted, before them only
\* what the host has and cdc_tx_done has not yet taken off; and the packet
\* under way is not longer than what is in it.  Exception: a packet that the
\* host has when the bus is reset comes twice (see CdcReset).
CdcStream ==
    LET had == IF cdcUsb.taken THEN cdcUsb.len ELSE 0
    IN /\ Len(outbuf) <= CdcSize /\ cdcUsb.len <= Len(outbuf)
       /\ outbuf = CdcBytes((cdcExpected + CdcNumbers - had) % CdcNumbers, Len(outbuf))
       /\ (cdcExpected + Len(outbuf) - had) % CdcNumbers = cdcWritten
=============================================================================
