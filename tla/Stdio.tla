------------------------------- MODULE Stdio -------------------------------
(***************************************************************************)
(* stdout, src/src/common/stdio.c, on a UART, src/src/soc/kinetis/         *)
(* uart-stdio.c: fputc collects characters in a ring and hands pieces of   *)
(* it to uart_stdio_write, which takes one piece at a time.                *)
(*                                                                         *)
(* fputc is a critical section, so it is one action.  Characters are       *)
(* numbered in the order of the calls, modulo StdioNumbers; any of them    *)
(* may be a newline.                                                       *)
(***************************************************************************)
EXTENDS Naturals, Sequences

CONSTANTS
    StdioSize,      \* STDIO_OUTBUF_SIZE
    StdioChunk,     \* sizeof(wr_buf)
    StdioNumbers,   \* numbers for characters
    StdioLosses     \* times the ring runs full while one piece is sent, at most

\* More numbers than characters can be under way; the indices of the ring are
\* unsigned int, and every value the ring can take fits.
ASSUME StdioAssumption ==
    /\ StdioSize \in Nat \ {0, 1} /\ StdioChunk \in Nat \ {0}
    /\ StdioLosses \in Nat
    /\ StdioNumbers \in Nat
    /\ StdioNumbers > StdioSize * (StdioLosses + 1) + StdioChunk

VARIABLES
    stdout_buf, outbuf_head, outbuf_tail,   \* the ring in stdout
    wr_buf,      \* what the UART has still to send of wr_buf
    printed,     \* the number of the next character
    due, lost    \* history: the number the line expects next; how often the
                 \* ring ran full since wr_buf was filled

stdioVars ==
    <<stdout_buf, outbuf_head, outbuf_tail, wr_buf, printed, due, lost>>

StdioMin(m, n) == IF m < n THEN m ELSE n

\* The ring is empty when head and tail meet.
Buffered(head, tail) == (head + StdioSize - tail) % StdioSize

\* size_t buffered never is below zero: head behind tail gives a huge number.
MoreThanHalf(head, tail) == head < tail \/ 2 * (head - tail) > StdioSize

\* n in fflush: up to head, or up to the end of the array.
Piece(head, tail) == IF head >= tail THEN head - tail ELSE StdioSize - tail

\* Mutant: the buffer is filled again while it is being sent.
StdioTaken_busy(n) == StdioMin(n, StdioChunk)

\* uart_stdio_write: nothing while the last piece is being sent.
StdioTaken(n) == IF wr_buf # <<>> THEN 0 ELSE StdioMin(n, StdioChunk)

\* fflush.  The loop ends with its second write at the latest: once a piece is
\* taken the UART takes no more.
FlushFrom(buf, head) ==
    LET k == StdioTaken(Piece(head, outbuf_tail))
    IN /\ outbuf_tail' = (outbuf_tail + k) % StdioSize
       /\ wr_buf' = IF k = 0 THEN wr_buf
                    ELSE [i \in 1..k |-> buf[outbuf_tail + i - 1]]

fputc(nl) ==
    LET head == (outbuf_head + 1) % StdioSize
        full == head = outbuf_tail
    IN /\ lost + (IF full THEN 1 ELSE 0) <= StdioLosses
       /\ stdout_buf' = [stdout_buf EXCEPT ![outbuf_head] = printed]
       /\ outbuf_head' = head
       /\ printed' = (printed + 1) % StdioNumbers
       /\ IF nl \/ MoreThanHalf(head, outbuf_tail)
          THEN FlushFrom(stdout_buf', head)
          ELSE UNCHANGED <<outbuf_tail, wr_buf>>
       /\ LET skipped == lost + (IF full THEN 1 ELSE 0)
              handed == wr_buf' # wr_buf
          IN /\ lost' = IF handed THEN 0 ELSE skipped
             /\ due' = IF handed THEN (due + skipped * StdioSize) % StdioNumbers
                       ELSE due

\* A flush of the program's own, when no other thread prints.
fflush ==
    /\ FlushFrom(stdout_buf, outbuf_head)
    /\ lost' = IF wr_buf' # wr_buf THEN 0 ELSE lost
    /\ due' = IF wr_buf' # wr_buf THEN (due + lost * StdioSize) % StdioNumbers
              ELSE due
    /\ UNCHANGED <<stdout_buf, outbuf_head, printed>>

\* The UART sends a character of the piece.
LineSends ==
    /\ wr_buf # <<>>
    /\ wr_buf' = Tail(wr_buf)
    /\ due' = (due + 1) % StdioNumbers
    /\ UNCHANGED <<stdout_buf, outbuf_head, outbuf_tail, printed, lost>>

StdioInit ==
    /\ stdout_buf = [i \in 0..StdioSize - 1 |-> 0]
    /\ outbuf_head = 0 /\ outbuf_tail = 0
    /\ wr_buf = <<>>
    /\ printed = 0
    /\ due = 0 /\ lost = 0

StdioNext ==
    \/ \E nl \in BOOLEAN : fputc(nl)
    \/ fflush
    \/ LineSends

StdioSpec == StdioInit /\ [][StdioNext]_stdioVars

-----------------------------------------------------------------------------
(* Properties                                                              *)

Numbers(first, n) == [i \in 1..n |-> (first + i - 1) % StdioNumbers]

Ring == [i \in 1..Buffered(outbuf_head, outbuf_tail) |->
            stdout_buf[(outbuf_tail + i - 1) % StdioSize]]

\* Characters reach the line once and in the order of the calls, however the
\* ring wraps, the device takes pieces and flushes find it busy; what is lost
\* is lost a whole ring at a time, at the moment the ring runs full.
StdioStream ==
    LET front == due + Len(wr_buf) + lost * StdioSize
    IN /\ wr_buf = Numbers(due, Len(wr_buf))
       /\ Ring = Numbers(front, Len(Ring))
       /\ (front + Len(Ring)) % StdioNumbers = printed
=============================================================================
