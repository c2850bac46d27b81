----------------------------- MODULE SpiProofs ------------------------------
(***************************************************************************)
(* Spi.SpiInStep, proved for every set of transfers, every length and      *)
(* every depth of the FIFOs, and, in the second half, the driver of the    *)
(* radio that is a chain of such transfers: Nrf.NrfSetUp and               *)
(* Nrf.NrfVerdict, for every set of addresses, lengths and settings, also  *)
(* where those of the two directions are the same.                         *)
(***************************************************************************)
EXTENDS Spi, Nrf, QueueLemmas, SequenceTheorems, TLAPS

-----------------------------------------------------------------------------
(* The inductive invariant                                                 *)

Frame == [number : Nat, eoq : BOOLEAN]
Counts == [tx : Nat, rx : Nat, tail : Nat, sent : Nat, got : Nat]

SpiTypeOK ==
    /\ spiQueue \in Seq(SpiCtxs)
    /\ spiCtx \in [SpiCtxs -> Counts]
    /\ spiPc \in {"thread", "read", "act", "callback"}
    /\ spiStatus \in [rfdf : BOOLEAN, tfff : BOOLEAN, eoqf : BOOLEAN, rxctr : Nat]
    /\ dspi \in [tx : Seq(Frame), shift : Seq(Frame), rx : Seq(Frame),
                 eoqf : BOOLEAN, rie : BOOLEAN, tie : BOOLEAN]
    /\ Len(dspi.shift) <= 1

\* A context is queued once, nothing of a transfer that waits has been on the
\* wire, and the handler looks at a transfer only while there is one.
SpiWaiting ==
    /\ \A i, j \in 1..Len(spiQueue) : spiQueue[i] = spiQueue[j] => i = j
    /\ \A i \in 2..Len(spiQueue) :
          spiCtx[spiQueue[i]].sent = 0 /\ spiCtx[spiQueue[i]].got = 0
    /\ spiPc \in {"read", "act"} => spiQueue # <<>>

\* Nothing follows the frame that carries EOQ, and all is sent once it has
\* been on the wire; so nothing is left of a transfer that finishes.
SpiSentAll == SpiHead.tx = 0 /\ SpiHead.tail = 0

SpiEnding ==
    IF spiQueue = <<>>
    THEN dspi.shift = <<>> /\ dspi.tx = <<>>
    ELSE /\ \A i \in 1..Len(dspi.shift) :
               dspi.shift[i].eoq => dspi.tx = <<>> /\ SpiSentAll
         /\ \A i \in 1..Len(dspi.tx) :
               dspi.tx[i].eoq => i = Len(dspi.tx) /\ SpiSentAll
         /\ dspi.eoqf => dspi.shift = <<>> /\ dspi.tx = <<>> /\ SpiSentAll

\* As long as the transfer receives: what is under way, in order, and never
\* more than the receive FIFO and the shift register hold.
Numbered(frames, first) ==
    \A i \in 1..Len(frames) : frames[i].number = first + i - 1

UnderWay == Len(dspi.rx) + Len(dspi.shift) + Len(dspi.tx)

SpiFlowing ==
    spiQueue # <<>> /\ SpiHead.rx > 0 =>
        /\ dspi.rie
        /\ Numbered(dspi.rx, SpiHead.got)
        /\ Numbered(dspi.shift, SpiHead.got + Len(dspi.rx))
        /\ Numbered(dspi.tx, SpiHead.got + Len(dspi.rx) + Len(dspi.shift))
        /\ SpiHead.sent = SpiHead.got + UnderWay
        /\ UnderWay <= SpiDepth + 1

\* What the copies of the status are still good for when the handler acts.
SpiCopies ==
    spiPc = "act" =>
        /\ spiStatus.eoqf => dspi.eoqf
        /\ SpiHead.rx > 0 /\ spiStatus.rfdf => spiStatus.rxctr <= Len(dspi.rx)
        /\ SpiHead.rx > 0 /\ ~spiStatus.rfdf /\ spiStatus.tfff
             => UnderWay <= SpiDepth

SpiInv == SpiTypeOK /\ SpiWaiting /\ SpiEnding /\ SpiFlowing /\ SpiCopies

-----------------------------------------------------------------------------
(* Lemmas on numbered frames                                               *)

\* Appending continues the numbers.
LEMMA NumberedAppend ==
    ASSUME NEW s \in Seq(Frame), NEW f \in Frame, NEW m \in Nat,
           Numbered(s, m), f.number = m + Len(s)
    PROVE  /\ Append(s, f) \in Seq(Frame)
           /\ Len(Append(s, f)) = Len(s) + 1
           /\ Numbered(Append(s, f), m)
<1>1. /\ Append(s, f) \in Seq(Frame)
      /\ Len(Append(s, f)) = Len(s) + 1
      /\ Len(s) \in Nat
      /\ \A i \in 1..Len(s) : Append(s, f)[i] = s[i]
      /\ Append(s, f)[Len(s) + 1] = f
  OBVIOUS
<1>2. ASSUME NEW i \in 1..Len(s) + 1
      PROVE  Append(s, f)[i].number = m + i - 1
  <2>1. CASE i = Len(s) + 1
    BY <1>1, <2>1
  <2>2. CASE i # Len(s) + 1
    BY <1>1, <2>2 DEF Numbered
  <2> QED
    BY <2>1, <2>2
<1> QED
  BY <1>1, <1>2 DEF Numbered

\* Frames behind frames continue the numbers.
LEMMA NumberedConcat ==
    ASSUME NEW s \in Seq(Frame), NEW t \in Seq(Frame), NEW m \in Nat,
           Numbered(s, m), Numbered(t, m + Len(s))
    PROVE  /\ s \o t \in Seq(Frame)
           /\ Len(s \o t) = Len(s) + Len(t)
           /\ Numbered(s \o t, m)
<1>1. /\ s \o t \in Seq(Frame)
      /\ Len(s \o t) = Len(s) + Len(t)
      /\ Len(s) \in Nat /\ Len(t) \in Nat
      /\ \A i \in 1..Len(s) + Len(t) :
            (s \o t)[i] = IF i <= Len(s) THEN s[i] ELSE t[i - Len(s)]
  OBVIOUS
<1>2. ASSUME NEW i \in 1..Len(s) + Len(t)
      PROVE  (s \o t)[i].number = m + i - 1
  <2>1. CASE i <= Len(s)
    BY <1>1, <2>1 DEF Numbered
  <2>2. CASE ~(i <= Len(s))
    <3>1. i - Len(s) \in 1..Len(t)
      BY <1>1, <2>2
    <3>2. t[i - Len(s)].number = m + Len(s) + (i - Len(s)) - 1
      BY <3>1 DEF Numbered
    <3> QED
      BY <1>1, <2>2, <3>2
  <2> QED
    BY <2>1, <2>2
<1> QED
  BY <1>1, <1>2 DEF Numbered

\* What is left when the first n frames are read.
LEMMA NumberedDrop ==
    ASSUME NEW s \in Seq(Frame), NEW m \in Nat, NEW n \in 0..Len(s)
    PROVE  /\ SubSeq(s, n + 1, Len(s)) \in Seq(Frame)
           /\ Len(SubSeq(s, n + 1, Len(s))) = Len(s) - n
           /\ Numbered(s, m) => Numbered(SubSeq(s, n + 1, Len(s)), m + n)
<1> DEFINE r == SubSeq(s, n + 1, Len(s))
<1>1. /\ Len(s) \in Nat /\ n \in Nat
      /\ r \in Seq(Frame)
      /\ Len(r) = Len(s) - n
      /\ \A i \in 1..Len(s) - n : r[i] = s[n + i]
  BY SubSeqProperties
<1> HIDE DEF r
<1>2. ASSUME Numbered(s, m), NEW i \in 1..Len(s) - n
      PROVE  r[i].number = m + n + i - 1
  <2>1. n + i \in 1..Len(s)
    BY <1>1
  <2>2. s[n + i].number = m + (n + i) - 1
    BY <1>2, <2>1 DEF Numbered
  <2> QED
    BY <1>1, <2>2
<1>3. Numbered(s, m) => Numbered(r, m + n)
  BY <1>1, <1>2 DEF Numbered
<1> QED
  BY <1>1, <1>3 DEF r

\* The first frame, and the ones behind it.
LEMMA NumberedHead ==
    ASSUME NEW s \in Seq(Frame), NEW m \in Nat, s # <<>>
    PROVE  /\ <<Head(s)>> \in Seq(Frame)
           /\ Tail(s) \in Seq(Frame)
           /\ Len(<<Head(s)>>) = 1
           /\ Len(Tail(s)) = Len(s) - 1
           /\ Len(s) \in Nat \ {0}
           /\ Numbered(s, m) =>
                 Numbered(<<Head(s)>>, m) /\ Numbered(Tail(s), m + 1)
<1>1. /\ <<Head(s)>> \in Seq(Frame)
      /\ Tail(s) \in Seq(Frame)
      /\ Len(s) \in Nat \ {0}
      /\ Len(Tail(s)) = Len(s) - 1
      /\ \A i \in 1..Len(s) - 1 : Tail(s)[i] = s[i + 1]
      /\ Head(s) = s[1]
      /\ Len(<<Head(s)>>) = 1
      /\ <<Head(s)>>[1] = s[1]
  OBVIOUS
<1>2. ASSUME Numbered(s, m) PROVE Numbered(<<Head(s)>>, m)
  BY <1>1, <1>2 DEF Numbered
<1>3. ASSUME Numbered(s, m), NEW i \in 1..Len(s) - 1
      PROVE  Tail(s)[i].number = m + 1 + i - 1
  <2>1. i + 1 \in 1..Len(s)
    BY <1>1
  <2>2. s[i + 1].number = m + (i + 1) - 1
    BY <1>3, <2>1 DEF Numbered
  <2> QED
    BY <1>1, <2>2
<1>4. Numbered(s, m) => Numbered(Tail(s), m + 1)
  BY <1>1, <1>3 DEF Numbered
<1> QED
  BY <1>1, <1>2, <1>4

\* Nothing is numbered from anywhere.
LEMMA NumberedEmpty ==
    ASSUME NEW m PROVE Numbered(<<>>, m) /\ Len(<<>>) = 0
BY DEF Numbered

-----------------------------------------------------------------------------
(* What the types give                                                     *)

\* The length of a sequence of frames.
LEMMA FramesLen ==
    ASSUME NEW s \in Seq(Frame)
    PROVE  Len(s) \in Nat /\ (s = <<>> <=> Len(s) = 0)
BY EmptySeq

\* The controller, field by field.
LEMMA DspiTypes ==
    ASSUME SpiTypeOK
    PROVE  /\ dspi.tx \in Seq(Frame) /\ dspi.shift \in Seq(Frame)
           /\ dspi.rx \in Seq(Frame)
           /\ Len(dspi.tx) \in Nat /\ Len(dspi.rx) \in Nat
           /\ Len(dspi.shift) \in {0, 1}
           /\ dspi.shift = <<>> => Len(dspi.shift) = 0
           /\ dspi.shift # <<>> => Len(dspi.shift) = 1
<1>1. dspi.tx \in Seq(Frame) /\ dspi.shift \in Seq(Frame) /\ dspi.rx \in Seq(Frame)
  BY DEF SpiTypeOK
<1>2. Len(dspi.shift) <= 1
  BY DEF SpiTypeOK
<1>3. Len(dspi.shift) \in Nat /\ (dspi.shift = <<>> <=> Len(dspi.shift) = 0)
  BY <1>1, FramesLen
<1>4. Len(dspi.tx) \in Nat /\ Len(dspi.rx) \in Nat
  BY <1>1, FramesLen
<1>5. Len(dspi.shift) \in {0, 1}
  <2>1. \A n \in Nat : n <= 1 => n \in {0, 1}
    OBVIOUS
  <2> QED
    BY <1>2, <1>3, <2>1, Zenon
<1> QED
  BY <1>1, <1>3, <1>4, <1>5

\* The transfer at the head of the queue, field by field.
LEMMA SpiHeadTypes ==
    ASSUME SpiTypeOK, spiQueue # <<>>
    PROVE  /\ SpiHead \in Counts
           /\ SpiHead.tx \in Nat /\ SpiHead.rx \in Nat /\ SpiHead.tail \in Nat
           /\ SpiHead.sent \in Nat /\ SpiHead.got \in Nat
           /\ Head(spiQueue) = spiQueue[1] /\ Head(spiQueue) \in SpiCtxs
           /\ Len(spiQueue) \in Nat \ {0}
<1>1. /\ Head(spiQueue) = spiQueue[1] /\ Head(spiQueue) \in SpiCtxs
      /\ Len(spiQueue) \in Nat \ {0}
  BY DEF SpiTypeOK
<1>2. SpiHead \in Counts
  BY <1>1 DEF SpiTypeOK, SpiHead
<1> QED
  BY <1>1, <1>2 DEF Counts

-----------------------------------------------------------------------------
(* The controller keeps the invariant.                                     *)

\* A frame goes from the FIFO to the shift register.  The receive FIFO gives up
\* nothing of a transfer that receives.
LEMMA LoadStep == SpiInv /\ DspiLoad => SpiInv'
<1> SUFFICES ASSUME SpiInv, DspiLoad PROVE SpiInv'
  OBVIOUS
<1>1. UNCHANGED <<spiQueue, spiCtx, spiPc, spiStatus>> /\ SpiHead' = SpiHead
  BY DEF DspiLoad, SpiHead
<1>2. /\ dspi.tx \in Seq(Frame) /\ dspi.rx \in Seq(Frame)
      /\ dspi.tx # <<>> /\ dspi.shift = <<>> /\ ~dspi.eoqf
  BY DEF SpiInv, SpiTypeOK, DspiLoad
<1>3. /\ dspi'.shift = <<Head(dspi.tx)>> /\ dspi'.tx = Tail(dspi.tx)
      /\ dspi'.rx = SubSeq(dspi.rx, 1, SpiMin(Len(dspi.rx), SpiDepth))
      /\ dspi'.eoqf = dspi.eoqf /\ dspi'.rie = dspi.rie /\ dspi'.tie = dspi.tie
  BY DEF SpiInv, SpiTypeOK, DspiLoad
<1>4. /\ <<Head(dspi.tx)>> \in Seq(Frame)
      /\ Tail(dspi.tx) \in Seq(Frame)
      /\ Len(<<Head(dspi.tx)>>) = 1
      /\ Len(Tail(dspi.tx)) = Len(dspi.tx) - 1
      /\ Len(dspi.tx) \in Nat \ {0}
      /\ \A m \in Nat : Numbered(dspi.tx, m) =>
            Numbered(<<Head(dspi.tx)>>, m) /\ Numbered(Tail(dspi.tx), m + 1)
  BY <1>2, NumberedHead
<1>5. /\ SpiMin(Len(dspi.rx), SpiDepth) \in 0..Len(dspi.rx)
      /\ SpiMin(Len(dspi.rx), SpiDepth) \in 0..SpiDepth
      /\ Len(dspi.rx) <= SpiDepth => SpiMin(Len(dspi.rx), SpiDepth) = Len(dspi.rx)
      /\ Len(dspi.rx) \in Nat
  BY <1>2, DspiTypes, SpiAssumption DEF SpiMin, SpiInv
<1>6. /\ dspi'.rx \in Seq(Frame)
      /\ Len(dspi.rx) <= SpiDepth => dspi'.rx = dspi.rx
      /\ Len(dspi'.rx) = SpiMin(Len(dspi.rx), SpiDepth)
  <2>1. dspi.rx = SubSeq(dspi.rx, 1, Len(dspi.rx))
    BY <1>2
  <2> QED
    BY <1>2, <1>3, <1>5, <2>1
<1>7. SpiTypeOK'
  <2>1. dspi' = [dspi EXCEPT !.shift = <<Head(dspi.tx)>>, !.tx = Tail(dspi.tx),
                             !.rx = SubSeq(dspi.rx, 1, SpiMin(Len(dspi.rx), SpiDepth))]
    BY DEF DspiLoad
  <2>2. dspi' \in [tx : Seq(Frame), shift : Seq(Frame), rx : Seq(Frame),
                   eoqf : BOOLEAN, rie : BOOLEAN, tie : BOOLEAN]
    BY <1>3, <1>4, <1>6, <2>1 DEF SpiInv, SpiTypeOK
  <2> QED
    BY <1>1, <1>3, <1>4, <2>2 DEF SpiInv, SpiTypeOK
<1>8. SpiWaiting'
  BY <1>1 DEF SpiInv, SpiWaiting
<1>9. spiQueue # <<>>
  BY <1>2 DEF SpiInv, SpiEnding
<1>10. SpiEnding'
  <2>1. Head(dspi.tx) = dspi.tx[1] /\ <<Head(dspi.tx)>>[1] = dspi.tx[1]
    BY <1>2
  <2>2. ASSUME NEW i \in 1..Len(dspi'.shift), dspi'.shift[i].eoq
        PROVE  dspi'.tx = <<>> /\ SpiSentAll'
    <3>1. i = 1 /\ dspi.tx[1].eoq
      BY <1>3, <1>4, <2>1, <2>2
    <3>2. 1 = Len(dspi.tx) /\ SpiSentAll
      BY <1>4, <1>9, <3>1 DEF SpiInv, SpiEnding
    <3>3. Tail(dspi.tx) = <<>>
      <4>1. Tail(dspi.tx) \in Seq(Frame) /\ Len(Tail(dspi.tx)) = 0
        BY <1>4, <3>2
      <4> QED
        BY <4>1, EmptySeq
    <3> QED
      BY <1>1, <1>3, <3>2, <3>3 DEF SpiSentAll
  <2>3. ASSUME NEW i \in 1..Len(dspi'.tx), dspi'.tx[i].eoq
        PROVE  i = Len(dspi'.tx) /\ SpiSentAll'
    <3>1. i + 1 \in 1..Len(dspi.tx) /\ dspi'.tx[i] = dspi.tx[i + 1]
      BY <1>2, <1>3, <1>4
    <3>2. i + 1 = Len(dspi.tx) /\ SpiSentAll
      BY <1>9, <2>3, <3>1 DEF SpiInv, SpiEnding
    <3> QED
      BY <1>1, <1>3, <1>4, <3>2 DEF SpiSentAll
  <2> QED
    BY <1>1, <1>2, <1>3, <1>9, <2>2, <2>3 DEF SpiEnding
<1>11. SpiFlowing' /\ (SpiHead.rx > 0 => UnderWay' = UnderWay /\ dspi'.rx = dspi.rx)
  <2> SUFFICES ASSUME SpiHead.rx > 0
               PROVE  SpiFlowing' /\ UnderWay' = UnderWay /\ dspi'.rx = dspi.rx
    BY <1>1 DEF SpiFlowing
  <2>1. /\ dspi.rie
        /\ Numbered(dspi.rx, SpiHead.got)
        /\ Numbered(dspi.tx, SpiHead.got + Len(dspi.rx))
        /\ SpiHead.sent = SpiHead.got + UnderWay
        /\ UnderWay <= SpiDepth + 1
        /\ UnderWay = Len(dspi.rx) + Len(dspi.tx)
    <3>1. Len(dspi.shift) = 0 /\ Len(dspi.rx) + 0 = Len(dspi.rx)
      BY <1>2, <1>5
    <3>2. SpiHead.got + Len(dspi.rx) + Len(dspi.shift) = SpiHead.got + Len(dspi.rx)
      BY <1>5, <1>9, <3>1, SpiHeadTypes DEF SpiInv
    <3>3. UnderWay = Len(dspi.rx) + Len(dspi.tx)
      BY <3>1 DEF UnderWay
    <3> QED
      BY <1>9, <3>2, <3>3 DEF SpiInv, SpiFlowing
  <2>2. dspi'.rx = dspi.rx
    <3>1. Len(dspi.rx) <= SpiDepth
      <4>1. /\ Len(dspi.rx) \in Nat /\ Len(dspi.tx) \in Nat \ {0}
            /\ Len(dspi.rx) + Len(dspi.tx) <= SpiDepth + 1 /\ SpiDepth \in Nat
        BY <1>4, <1>5, <2>1, SpiAssumption
      <4>2. \A n \in Nat, m \in Nat \ {0}, d \in Nat : n + m <= d + 1 => n <= d
        OBVIOUS
      <4> QED
        BY <4>1, <4>2, Zenon
    <3> QED
      BY <1>6, <3>1
  <2>3. SpiHead.got \in Nat /\ SpiHead.got + Len(dspi.rx) \in Nat
    BY <1>5, <1>9, SpiHeadTypes DEF SpiInv
  <2>4. /\ Numbered(dspi'.shift, SpiHead.got + Len(dspi.rx))
        /\ Numbered(dspi'.tx, SpiHead.got + Len(dspi.rx) + 1)
    BY <1>3, <1>4, <2>1, <2>3
  <2>5. UnderWay' = UnderWay
    <3>1. UnderWay' = Len(dspi.rx) + 1 + (Len(dspi.tx) - 1)
      BY <1>3, <1>4, <2>2 DEF UnderWay
    <3>2. /\ Len(dspi.rx) \in Nat /\ Len(dspi.tx) \in Nat
          /\ UnderWay = Len(dspi.rx) + Len(dspi.tx)
      BY <1>4, <1>5, <2>1
    <3>3. \A n, m \in Nat : n + 1 + (m - 1) = n + m
      OBVIOUS
    <3> QED
      BY <3>1, <3>2, <3>3, Zenon
  <2>6. Len(dspi'.shift) = 1
    BY <1>3, <1>4
  <2> QED
    BY <1>1, <1>3, <2>1, <2>2, <2>4, <2>5, <2>6 DEF SpiFlowing, Numbered
<1>12. SpiCopies'
  BY <1>1, <1>3, <1>11 DEF SpiInv, SpiCopies
<1> QED
  BY <1>7, <1>8, <1>10, <1>11, <1>12 DEF SpiInv

\* A frame has been on the wire; what came back is received behind the others.
LEMMA ShiftStep == SpiInv /\ DspiShift => SpiInv'
<1> SUFFICES ASSUME SpiInv, DspiShift PROVE SpiInv'
  OBVIOUS
<1>1. UNCHANGED <<spiQueue, spiCtx, spiPc, spiStatus>> /\ SpiHead' = SpiHead
  BY DEF DspiShift, SpiHead
<1>2. /\ dspi.tx \in Seq(Frame) /\ dspi.rx \in Seq(Frame) /\ dspi.shift \in Seq(Frame)
      /\ dspi.shift # <<>> /\ Len(dspi.shift) = 1
      /\ Len(dspi.tx) \in Nat /\ Len(dspi.rx) \in Nat
  BY DspiTypes DEF SpiInv, DspiShift
<1>3. /\ dspi'.shift = <<>> /\ dspi'.tx = dspi.tx
      /\ dspi'.rx = dspi.rx \o dspi.shift
      /\ dspi'.eoqf = dspi.shift[1].eoq /\ dspi'.rie = dspi.rie /\ dspi'.tie = dspi.tie
  BY DEF SpiInv, SpiTypeOK, DspiShift
<1>4. /\ dspi.rx \o dspi.shift \in Seq(Frame)
      /\ Len(dspi.rx \o dspi.shift) = Len(dspi.rx) + 1
      /\ dspi.shift[1] \in Frame
  <2>1. Len(dspi.rx \o dspi.shift) = Len(dspi.rx) + Len(dspi.shift)
    BY <1>2, ConcatProperties
  <2>2. dspi.rx \o dspi.shift \in Seq(Frame)
    BY <1>2, ConcatProperties
  <2>3. dspi.shift[1] \in Frame
    BY <1>2, ElementOfSeq
  <2> QED
    BY <1>2, <2>1, <2>2, <2>3
<1>5. spiQueue # <<>>
  BY <1>2 DEF SpiInv, SpiEnding
<1>6. SpiTypeOK'
  <2>1. dspi' = [dspi EXCEPT !.shift = <<>>, !.rx = dspi.rx \o dspi.shift,
                             !.eoqf = dspi.shift[1].eoq]
    BY DEF DspiShift
  <2>2. dspi' \in [tx : Seq(Frame), shift : Seq(Frame), rx : Seq(Frame),
                   eoqf : BOOLEAN, rie : BOOLEAN, tie : BOOLEAN]
    <3>1. <<>> \in Seq(Frame)
      OBVIOUS
    <3>2. dspi.shift[1].eoq \in BOOLEAN
      BY <1>4 DEF Frame
    <3> QED
      BY <1>4, <2>1, <3>1, <3>2 DEF SpiInv, SpiTypeOK
  <2> QED
    BY <1>1, <1>3, <2>2 DEF SpiInv, SpiTypeOK
<1>7. SpiWaiting'
  BY <1>1 DEF SpiInv, SpiWaiting
<1>8. SpiEnding'
  <2>1. dspi'.eoqf => dspi'.tx = <<>> /\ SpiSentAll'
    <3>1. dspi'.eoqf => dspi.tx = <<>> /\ SpiSentAll
      <4>1. 1 \in 1..Len(dspi.shift)
        BY <1>2
      <4>2. dspi.shift[1].eoq => dspi.tx = <<>> /\ SpiSentAll
        BY <1>5, <4>1 DEF SpiInv, SpiEnding
      <4> QED
        BY <1>3, <4>2, Zenon
    <3> QED
      BY <1>1, <1>3, <3>1 DEF SpiSentAll
  <2>2. \A i \in 1..Len(dspi'.tx) :
            dspi'.tx[i].eoq => i = Len(dspi'.tx) /\ SpiSentAll'
    BY <1>1, <1>3, <1>5 DEF SpiInv, SpiEnding, SpiSentAll
  <2> QED
    BY <1>1, <1>3, <1>5, <2>1, <2>2 DEF SpiEnding
<1>9. SpiFlowing' /\ (SpiHead.rx > 0 => UnderWay' = UnderWay)
      /\ Len(dspi'.rx) = Len(dspi.rx) + 1
  <2> SUFFICES ASSUME SpiHead.rx > 0 PROVE SpiFlowing' /\ UnderWay' = UnderWay
    BY <1>1, <1>3, <1>4 DEF SpiFlowing
  <2>1. /\ dspi.rie
        /\ Numbered(dspi.rx, SpiHead.got)
        /\ Numbered(dspi.shift, SpiHead.got + Len(dspi.rx))
        /\ Numbered(dspi.tx, SpiHead.got + Len(dspi.rx) + 1)
        /\ SpiHead.sent = SpiHead.got + UnderWay
        /\ UnderWay <= SpiDepth + 1
    BY <1>2, <1>5 DEF SpiInv, SpiFlowing
  <2>2. SpiHead.got \in Nat
    BY <1>5 DEF SpiInv, SpiTypeOK, SpiHead, Counts
  <2>3. Numbered(dspi'.rx, SpiHead.got)
    BY <1>2, <1>3, <2>1, <2>2, NumberedConcat
  <2>4. UnderWay' = UnderWay
    BY <1>2, <1>3, <1>4 DEF UnderWay
  <2>5. /\ SpiHead.got + Len(dspi'.rx) + Len(dspi'.shift)
               = SpiHead.got + Len(dspi.rx) + 1
        /\ Numbered(dspi'.shift, SpiHead.got + Len(dspi'.rx))
    BY <1>2, <1>3, <1>4, <2>2, NumberedEmpty
  <2>6. Numbered(dspi'.tx, SpiHead.got + Len(dspi'.rx) + Len(dspi'.shift))
    BY <1>3, <2>1, <2>5
  <2> QED
    BY <1>1, <1>3, <2>1, <2>3, <2>4, <2>5, <2>6 DEF SpiFlowing, Numbered
<1>10. SpiCopies'
  <2>1. dspi.eoqf => dspi.shift = <<>>
    BY <1>5 DEF SpiInv, SpiEnding
  <2>2. ASSUME spiPc = "act" PROVE ~spiStatus.eoqf /\ spiStatus.rxctr \in Nat
    BY <1>2, <2>1, <2>2 DEF SpiInv, SpiCopies, SpiTypeOK
  <2> QED
    BY <1>1, <1>2, <1>9, <2>2 DEF SpiInv, SpiCopies
<1> QED
  BY <1>6, <1>7, <1>8, <1>9, <1>10 DEF SpiInv

-----------------------------------------------------------------------------
(* The steps that leave the transfers and the controller alone             *)

\* The handler is entered, or left.
LEMMA EnterLeaveStep ==
    SpiInv /\ (SpiInterrupt \/ SpiExit \/ SpiCallbackReturns) => SpiInv'
<1> SUFFICES ASSUME SpiInv, SpiInterrupt \/ SpiExit \/ SpiCallbackReturns
             PROVE  SpiInv'
  OBVIOUS
<1>1. /\ UNCHANGED <<spiQueue, spiCtx, dspi>>
      /\ SpiHead' = SpiHead
      /\ UnderWay' = UnderWay
  BY DEF SpiInterrupt, SpiExit, SpiCallbackReturns, SpiHead, UnderWay
<1>2. /\ spiPc' \in {"thread", "read"}
      /\ spiQueue = <<>> => spiPc' = "thread"
  BY DEF SpiInv, SpiWaiting, SpiInterrupt, SpiExit, SpiCallbackReturns
<1>3. spiStatus' \in [rfdf : BOOLEAN, tfff : BOOLEAN, eoqf : BOOLEAN, rxctr : Nat]
  <2>1. spiStatus' \in {spiStatus, NoStatus}
    BY DEF SpiInterrupt, SpiExit, SpiCallbackReturns
  <2>2. NoStatus \in [rfdf : BOOLEAN, tfff : BOOLEAN, eoqf : BOOLEAN, rxctr : Nat]
    BY DEF NoStatus
  <2> QED
    BY <2>1, <2>2 DEF SpiInv, SpiTypeOK
<1>4. SpiTypeOK'
  BY <1>1, <1>2, <1>3 DEF SpiInv, SpiTypeOK
<1>5. SpiWaiting'
  BY <1>1, <1>2 DEF SpiInv, SpiWaiting
<1>6. SpiEnding' /\ SpiFlowing'
  BY <1>1 DEF SpiInv, SpiEnding, SpiFlowing, SpiSentAll, Numbered
<1>7. SpiCopies'
  BY <1>2 DEF SpiCopies
<1> QED
  BY <1>4, <1>5, <1>6, <1>7 DEF SpiInv

\* The handler takes its copies of the status.
LEMMA ReadStatusStep == SpiInv /\ SpiReadStatus => SpiInv'
<1> SUFFICES ASSUME SpiInv, SpiReadStatus PROVE SpiInv'
  OBVIOUS
<1>1. /\ UNCHANGED <<spiQueue, spiCtx, dspi>>
      /\ SpiHead' = SpiHead
      /\ UnderWay' = UnderWay
      /\ spiPc = "read" /\ spiPc' = "act"
  BY DEF SpiReadStatus, SpiHead, UnderWay
<1> DEFINE nr == Len(dspi.rx)
           ns == Len(dspi.shift)
           nt == Len(dspi.tx)
<1>2. nr \in Nat /\ ns \in {0, 1} /\ nt \in Nat
  BY DspiTypes DEF SpiInv
<1>3. SpiDepth \in Nat \ {0}
  BY SpiAssumption
<1>4. /\ spiStatus'.rfdf <=> dspi.rie /\ dspi.rx # <<>>
      /\ spiStatus'.tfff <=> dspi.tie /\ nt < SpiDepth
      /\ spiStatus'.eoqf <=> dspi.tie /\ dspi.eoqf
      /\ spiStatus'.rxctr = SpiMin(nr, SpiDepth)
  BY DEF SpiReadStatus
<1>5. SpiMin(nr, SpiDepth) \in Nat /\ SpiMin(nr, SpiDepth) <= nr
  BY <1>2, <1>3 DEF SpiMin
<1>6. spiStatus' \in [rfdf : BOOLEAN, tfff : BOOLEAN, eoqf : BOOLEAN, rxctr : Nat]
  <2>1. /\ (dspi.rie /\ dspi.rx # <<>>) \in BOOLEAN
        /\ (dspi.tie /\ nt < SpiDepth) \in BOOLEAN
        /\ (dspi.tie /\ dspi.eoqf) \in BOOLEAN
    OBVIOUS
  <2> HIDE DEF nt, nr
  <2> QED
    BY <1>5, <2>1 DEF SpiReadStatus, nt, nr
<1>7. SpiTypeOK'
  BY <1>1, <1>6 DEF SpiInv, SpiTypeOK
<1>8. SpiWaiting'
  BY <1>1 DEF SpiInv, SpiWaiting
<1>9. SpiEnding' /\ SpiFlowing'
  BY <1>1 DEF SpiInv, SpiEnding, SpiFlowing, SpiSentAll, Numbered
<1>10. SpiCopies'
  <2>1. spiStatus'.rxctr <= nr
    BY <1>4, <1>5
  <2>2. ASSUME SpiHead.rx > 0, ~spiStatus'.rfdf, spiStatus'.tfff
        PROVE  UnderWay <= SpiDepth
    <3>1. dspi.rie
      BY <1>1, <2>2 DEF SpiInv, SpiFlowing, SpiWaiting
    <3>2. dspi.rx = <<>>
      BY <1>4, <2>2, <3>1
    <3>3. nr = 0 /\ nt < SpiDepth
      BY <1>4, <2>2, <3>2
    <3>4. \A n, d \in Nat, m \in {0, 1} : n < d => 0 + m + n <= d
      OBVIOUS
    <3> QED
      BY <1>2, <1>3, <3>3, <3>4 DEF UnderWay
  <2> QED
    BY <1>1, <1>4, <2>1, <2>2 DEF SpiCopies
<1> QED
  BY <1>7, <1>8, <1>9, <1>10 DEF SpiInv

-----------------------------------------------------------------------------
(* Queueing a transfer                                                     *)

\* The controller once a transfer is started: empty, provided that nothing is
\* in the shift register.
LEMMA StartedTypes ==
    ASSUME SpiTypeOK, NEW transfer, transfer.rx \in Nat
    PROVE  /\ SpiStarted(transfer) \in
                 [tx : Seq(Frame), shift : Seq(Frame), rx : Seq(Frame),
                  eoqf : BOOLEAN, rie : BOOLEAN, tie : BOOLEAN]
           /\ SpiStarted(transfer).tx = <<>>
           /\ SpiStarted(transfer).rx = <<>>
           /\ SpiStarted(transfer).shift = dspi.shift
           /\ SpiStarted(transfer).eoqf = FALSE
           /\ SpiStarted(transfer).rie <=> transfer.rx > 0
<1> DEFINE rie == transfer.rx > 0
<1>1. rie \in BOOLEAN
  OBVIOUS
<1> HIDE DEF rie
<1>2. SpiStarted(transfer) =
        [dspi EXCEPT !.tx = <<>>, !.rx = <<>>, !.eoqf = FALSE, !.tie = TRUE,
                     !.rie = rie]
  BY DEF SpiStarted, rie
<1>3. dspi \in [tx : Seq(Frame), shift : Seq(Frame), rx : Seq(Frame),
                eoqf : BOOLEAN, rie : BOOLEAN, tie : BOOLEAN]
  BY DEF SpiTypeOK
<1>4. <<>> \in Seq(Frame)
  OBVIOUS
<1>5. /\ SpiStarted(transfer) \in
            [tx : Seq(Frame), shift : Seq(Frame), rx : Seq(Frame),
             eoqf : BOOLEAN, rie : BOOLEAN, tie : BOOLEAN]
      /\ SpiStarted(transfer).rie = rie
  BY <1>1, <1>2, <1>3, <1>4
<1>6. /\ SpiStarted(transfer).tx = <<>>
      /\ SpiStarted(transfer).rx = <<>>
      /\ SpiStarted(transfer).shift = dspi.shift
      /\ SpiStarted(transfer).eoqf = FALSE
  BY <1>2, <1>3
<1> QED
  BY <1>5, <1>6, Zenon DEF rie

\* A queue whose head is fresh, with nothing under way.
FreshHead ==
    /\ spiQueue # <<>>
    /\ SpiHead.sent = 0 /\ SpiHead.got = 0 /\ SpiHead.rx \in Nat
    /\ dspi.tx = <<>> /\ dspi.shift = <<>> /\ dspi.rx = <<>>
    /\ dspi.eoqf = FALSE
    /\ dspi.rie <=> SpiHead.rx > 0

LEMMA FreshHeadFlows == FreshHead => SpiEnding /\ SpiFlowing
<1> SUFFICES ASSUME FreshHead PROVE SpiEnding /\ SpiFlowing
  OBVIOUS
<1>1. Len(dspi.tx) = 0 /\ Len(dspi.shift) = 0 /\ Len(dspi.rx) = 0
  BY DEF FreshHead
<1>2. SpiEnding
  BY <1>1 DEF FreshHead, SpiEnding
<1>3. UnderWay = 0
  BY <1>1 DEF UnderWay
<1>4. SpiFlowing
  BY <1>1, <1>3, SpiAssumption DEF FreshHead, SpiFlowing, Numbered
<1> QED
  BY <1>2, <1>4

LEMMA QueueStep ==
    ASSUME NEW c \in SpiCtxs, NEW len \in SpiLengths, SpiInv, SpiQueue(c, len)
    PROVE  SpiInv'
<1> DEFINE new == [tx |-> len.tx, rx |-> len.rx, tail |-> RxTail(len),
                   sent |-> 0, got |-> 0]
<1>1. len.tx \in Nat /\ len.rx \in Nat
  BY SpiAssumption
<1>2. new \in Counts /\ new.rx = len.rx /\ new.sent = 0 /\ new.got = 0
  <2>1. RxTail(len) \in Nat
    BY <1>1 DEF RxTail
  <2> QED
    BY <1>1, <2>1 DEF Counts
<1>3. spiCtx' = [spiCtx EXCEPT ![c] = new]
  BY DEF SpiQueue
<1> HIDE DEF new
<1>4. /\ spiPc \in {"thread", "callback"} /\ UNCHANGED <<spiPc, spiStatus>>
      /\ spiQueue' = Append(spiQueue, c)
      /\ \A i \in 1..Len(spiQueue) : spiQueue[i] # c
  BY DEF SpiQueue
<1>5. /\ spiQueue \in Seq(SpiCtxs) /\ Len(spiQueue) \in Nat
      /\ spiQueue' \in Seq(SpiCtxs) /\ Len(spiQueue') = Len(spiQueue) + 1
      /\ \A i \in 1..Len(spiQueue) : spiQueue'[i] = spiQueue[i]
      /\ spiQueue'[Len(spiQueue) + 1] = c
      /\ spiQueue' # <<>>
      /\ Head(spiQueue') = spiQueue'[1]
  BY <1>4 DEF SpiInv, SpiTypeOK
<1>6. /\ spiCtx \in [SpiCtxs -> Counts] /\ spiCtx' \in [SpiCtxs -> Counts]
      /\ spiCtx'[c] = new
      /\ \A d \in SpiCtxs : d # c => spiCtx'[d] = spiCtx[d]
  BY <1>2, <1>3 DEF SpiInv, SpiTypeOK
<1>7. spiQueue # <<>> =>
        /\ SpiHead' = SpiHead /\ dspi' = dspi
        /\ Head(spiQueue) # c
  <2> SUFFICES ASSUME spiQueue # <<>>
               PROVE  SpiHead' = SpiHead /\ dspi' = dspi /\ Head(spiQueue) # c
    OBVIOUS
  <2>1. /\ 1 \in 1..Len(spiQueue) /\ Head(spiQueue) = spiQueue[1]
        /\ Head(spiQueue) \in SpiCtxs
    BY <1>5
  <2>2. Head(spiQueue') = Head(spiQueue) /\ Head(spiQueue) # c
    BY <1>4, <1>5, <2>1
  <2>3. dspi' = dspi
    BY DEF SpiQueue
  <2> QED
    BY <1>6, <2>1, <2>2, <2>3 DEF SpiHead
<1>8. spiQueue = <<>> => SpiHead' = new /\ dspi' = SpiStarted(len)
  <2> SUFFICES ASSUME spiQueue = <<>>
               PROVE  SpiHead' = new /\ dspi' = SpiStarted(len)
    OBVIOUS
  <2>1. Head(spiQueue') = c
    BY <1>5
  <2> QED
    BY <1>6, <2>1 DEF SpiHead, SpiQueue
<1>9. SpiTypeOK'
  <2>1. CASE spiQueue = <<>>
    <3>1. dspi' \in [tx : Seq(Frame), shift : Seq(Frame), rx : Seq(Frame),
                     eoqf : BOOLEAN, rie : BOOLEAN, tie : BOOLEAN]
      BY <1>1, <1>8, <2>1, StartedTypes DEF SpiInv
    <3>2. dspi'.shift = dspi.shift
      BY <1>1, <1>8, <2>1, StartedTypes DEF SpiInv
    <3> QED
      BY <1>4, <1>5, <1>6, <3>1, <3>2 DEF SpiInv, SpiTypeOK
  <2>2. CASE spiQueue # <<>>
    BY <1>4, <1>5, <1>6, <1>7, <2>2 DEF SpiInv, SpiTypeOK
  <2> QED
    BY <2>1, <2>2
<1>10. SpiWaiting'
  <2>1. ASSUME NEW i \in 1..Len(spiQueue'), NEW j \in 1..Len(spiQueue'),
               spiQueue'[i] = spiQueue'[j]
        PROVE  i = j
    <3>1. i \in 1..Len(spiQueue) \/ i = Len(spiQueue) + 1
      BY <1>5
    <3>2. j \in 1..Len(spiQueue) \/ j = Len(spiQueue) + 1
      BY <1>5
    <3> QED
      BY <1>4, <1>5, <2>1, <3>1, <3>2 DEF SpiInv, SpiWaiting
  <2>2. ASSUME NEW i \in 2..Len(spiQueue')
        PROVE  spiCtx'[spiQueue'[i]].sent = 0 /\ spiCtx'[spiQueue'[i]].got = 0
    <3>1. CASE i = Len(spiQueue) + 1
      BY <1>2, <1>5, <1>6, <3>1
    <3>2. CASE i # Len(spiQueue) + 1
      <4>1. i \in 2..Len(spiQueue) /\ i \in 1..Len(spiQueue)
        BY <1>5, <3>2
      <4>2. /\ spiQueue'[i] = spiQueue[i] /\ spiQueue[i] # c
            /\ spiQueue[i] \in SpiCtxs
        BY <1>4, <1>5, <4>1
      <4> QED
        BY <1>6, <4>1, <4>2 DEF SpiInv, SpiWaiting
    <3> QED
      BY <3>1, <3>2
  <2> QED
    BY <1>5, <2>1, <2>2 DEF SpiWaiting
<1>11. SpiEnding' /\ SpiFlowing'
  <2>1. CASE spiQueue = <<>>
    <3>1. dspi.shift = <<>>
      BY <2>1 DEF SpiInv, SpiEnding
    <3>2. FreshHead'
      <4>1. /\ dspi'.tx = <<>> /\ dspi'.rx = <<>> /\ dspi'.shift = dspi.shift
            /\ dspi'.eoqf = FALSE
            /\ dspi'.rie <=> len.rx > 0
        <5>1. dspi' = SpiStarted(len) /\ SpiTypeOK
          BY <1>8, <2>1 DEF SpiInv
        <5> QED
          BY <1>1, <5>1, StartedTypes
      <4>2. /\ SpiHead'.sent = 0 /\ SpiHead'.got = 0
            /\ SpiHead'.rx = len.rx
        BY <1>2, <1>8, <2>1
      <4> QED
        BY <1>1, <1>5, <3>1, <4>1, <4>2 DEF FreshHead
    <3>3. (FreshHead => SpiEnding /\ SpiFlowing)'
      BY FreshHeadFlows, PTL
    <3> QED
      BY <3>2, <3>3
  <2>2. CASE spiQueue # <<>>
    BY <1>5, <1>7, <2>2
       DEF SpiInv, SpiEnding, SpiFlowing, SpiSentAll, Numbered, UnderWay
  <2> QED
    BY <2>1, <2>2
<1>12. SpiCopies'
  BY <1>4 DEF SpiCopies
<1> QED
  BY <1>9, <1>10, <1>11, <1>12 DEF SpiInv

-----------------------------------------------------------------------------
(* SPI0_Handler                                                            *)

\* Updating the head of the queue leaves the ones behind it alone.
LEMMA HeadUpdate ==
    ASSUME SpiTypeOK, SpiWaiting, spiQueue # <<>>,
           NEW after \in Counts,
           spiCtx' = [spiCtx EXCEPT ![Head(spiQueue)] = after],
           spiQueue' = spiQueue
    PROVE  /\ spiCtx' \in [SpiCtxs -> Counts]
           /\ SpiHead' = after
           /\ SpiWaiting'
<1>1. /\ Head(spiQueue) = spiQueue[1] /\ Head(spiQueue) \in SpiCtxs
      /\ Len(spiQueue) \in Nat \ {0} /\ spiCtx \in [SpiCtxs -> Counts]
      /\ spiQueue \in Seq(SpiCtxs)
  BY SpiHeadTypes DEF SpiTypeOK
<1>2. /\ spiCtx' \in [SpiCtxs -> Counts]
      /\ spiCtx'[Head(spiQueue)] = after
      /\ \A d \in SpiCtxs : d # Head(spiQueue) => spiCtx'[d] = spiCtx[d]
  BY <1>1
<1>3. SpiHead' = after
  BY <1>2 DEF SpiHead
<1>4. ASSUME NEW i \in 2..Len(spiQueue)
      PROVE  spiCtx'[spiQueue[i]] = spiCtx[spiQueue[i]]
  <2>1. i \in 1..Len(spiQueue) /\ 1 \in 1..Len(spiQueue) /\ i # 1
    BY <1>1
  <2>2. spiQueue[i] # Head(spiQueue) /\ spiQueue[i] \in SpiCtxs
    BY <1>1, <2>1 DEF SpiWaiting
  <2> QED
    BY <1>2, <2>2
<1>5. SpiWaiting'
  BY <1>4 DEF SpiWaiting
<1> QED
  BY <1>2, <1>3, <1>5

\* What is received is read out, as far as the transfer wants it.
LEMMA DrainStep == SpiInv /\ SpiDrain => SpiInv'
<1> SUFFICES ASSUME SpiInv, SpiDrain PROVE SpiInv'
  OBVIOUS
<1> DEFINE n == SpiMin(spiStatus.rxctr, SpiHead.rx)
           after == [SpiHead EXCEPT !.rx = SpiHead.rx - n, !.got = SpiHead.got + n]
           rie == dspi.rie /\ n # SpiHead.rx
<1>1. /\ spiPc = "act" /\ spiStatus.rfdf /\ SpiHead.rx > 0
      /\ spiPc' = "read" /\ UNCHANGED <<spiQueue, spiStatus>>
  BY DEF SpiDrain, Drains
<1>2. spiQueue # <<>>
  BY <1>1 DEF SpiInv, SpiWaiting
<1>3. /\ SpiHead \in Counts
      /\ SpiHead.tx \in Nat /\ SpiHead.rx \in Nat /\ SpiHead.tail \in Nat
      /\ SpiHead.sent \in Nat /\ SpiHead.got \in Nat
  BY <1>2, SpiHeadTypes DEF SpiInv
<1>4. spiStatus.rxctr \in Nat /\ spiStatus.rxctr <= Len(dspi.rx)
  BY <1>1 DEF SpiInv, SpiTypeOK, SpiCopies
<1>5. /\ dspi.tx \in Seq(Frame) /\ dspi.rx \in Seq(Frame) /\ dspi.shift \in Seq(Frame)
      /\ Len(dspi.rx) \in Nat /\ Len(dspi.shift) \in Nat /\ Len(dspi.tx) \in Nat
  BY DspiTypes DEF SpiInv
<1>6. n \in Nat /\ n <= SpiHead.rx /\ n <= Len(dspi.rx)
  BY <1>3, <1>4, <1>5 DEF SpiMin
<1>7. /\ spiCtx' = [spiCtx EXCEPT ![Head(spiQueue)] = after]
      /\ dspi' = [dspi EXCEPT !.rx = SubSeq(dspi.rx, n + 1, Len(dspi.rx)),
                              !.rie = rie]
  BY DEF SpiDrain
<1> HIDE DEF n
<1>8. /\ after \in Counts
      /\ after.rx = SpiHead.rx - n /\ after.got = SpiHead.got + n
      /\ after.tx = SpiHead.tx /\ after.tail = SpiHead.tail
      /\ after.sent = SpiHead.sent
  <2>1. SpiHead.rx - n \in Nat /\ SpiHead.got + n \in Nat
    BY <1>3, <1>6
  <2> QED
    BY <1>3, <2>1 DEF Counts
<1>9. rie \in BOOLEAN
  OBVIOUS
<1> HIDE DEF after, rie
<1>10. /\ spiCtx' \in [SpiCtxs -> Counts] /\ SpiHead' = after /\ SpiWaiting'
  BY <1>1, <1>2, <1>7, <1>8, HeadUpdate DEF SpiInv
<1> DEFINE rest == SubSeq(dspi.rx, n + 1, Len(dspi.rx))
<1>11. /\ rest \in Seq(Frame)
       /\ Len(rest) = Len(dspi.rx) - n
       /\ Numbered(dspi.rx, SpiHead.got) => Numbered(rest, SpiHead.got + n)
  <2>1. n \in 0..Len(dspi.rx)
    BY <1>5, <1>6
  <2> QED
    BY <1>3, <1>5, <2>1, NumberedDrop
<1>12. /\ dspi'.rx = rest /\ dspi'.tx = dspi.tx /\ dspi'.shift = dspi.shift
       /\ dspi'.eoqf = dspi.eoqf /\ dspi'.rie = rie
  BY <1>7 DEF SpiInv, SpiTypeOK
<1> HIDE DEF rest
<1>13. SpiTypeOK'
  <2>1. dspi' \in [tx : Seq(Frame), shift : Seq(Frame), rx : Seq(Frame),
                   eoqf : BOOLEAN, rie : BOOLEAN, tie : BOOLEAN]
    BY <1>7, <1>9, <1>11 DEF SpiInv, SpiTypeOK, rest
  <2> QED
    BY <1>1, <1>10, <1>12, <2>1 DEF SpiInv, SpiTypeOK
<1>14. SpiEnding'
  <2>1. SpiSentAll => SpiSentAll'
    BY <1>8, <1>10 DEF SpiSentAll
  <2> QED
    BY <1>1, <1>2, <1>12, <2>1 DEF SpiInv, SpiEnding
<1>15. SpiFlowing'
  <2> SUFFICES ASSUME after.rx > 0
               PROVE  /\ rie
                      /\ Numbered(rest, after.got)
                      /\ Numbered(dspi.shift, after.got + Len(rest))
                      /\ Numbered(dspi.tx, after.got + Len(rest) + Len(dspi.shift))
                      /\ after.sent = after.got + (Len(rest) + Len(dspi.shift)
                                                             + Len(dspi.tx))
                      /\ Len(rest) + Len(dspi.shift) + Len(dspi.tx) <= SpiDepth + 1
    BY <1>10, <1>12 DEF SpiFlowing, UnderWay, Numbered
  <2>1. /\ dspi.rie
        /\ Numbered(dspi.rx, SpiHead.got)
        /\ Numbered(dspi.shift, SpiHead.got + Len(dspi.rx))
        /\ Numbered(dspi.tx, SpiHead.got + Len(dspi.rx) + Len(dspi.shift))
        /\ SpiHead.sent = SpiHead.got + (Len(dspi.rx) + Len(dspi.shift) + Len(dspi.tx))
        /\ Len(dspi.rx) + Len(dspi.shift) + Len(dspi.tx) <= SpiDepth + 1
    BY <1>1, <1>2 DEF SpiInv, SpiFlowing, UnderWay
  <2>2. rie
    BY <1>3, <1>6, <1>8, <2>1 DEF rie
  <2> DEFINE nr == Len(dspi.rx)
             ns == Len(dspi.shift)
             nt == Len(dspi.tx)
             got == SpiHead.got
  <2>3. nr \in Nat /\ ns \in Nat /\ nt \in Nat /\ got \in Nat /\ SpiDepth \in Nat
    BY <1>3, <1>5, SpiAssumption
  <2>4. Len(rest) = nr - n /\ after.got = got + n /\ after.sent = SpiHead.sent
    BY <1>8, <1>11
  <2>5. SpiHead.sent = got + (nr + ns + nt) /\ nr + ns + nt <= SpiDepth + 1
    BY <2>1
  <2> HIDE DEF nr, ns, nt, got
  <2>6. /\ after.got + Len(rest) = got + nr
        /\ after.got + Len(rest) + ns = got + nr + ns
        /\ after.sent = after.got + (Len(rest) + ns + nt)
        /\ Len(rest) + ns + nt <= SpiDepth + 1
    BY <1>6, <2>3, <2>4, <2>5
  <2>7. Numbered(rest, after.got)
    BY <1>11, <2>1, <2>4 DEF got
  <2> QED
    BY <2>1, <2>2, <2>6, <2>7 DEF nr, ns, nt, got
<1>16. SpiCopies'
  BY <1>1 DEF SpiCopies
<1> QED
  BY <1>10, <1>13, <1>14, <1>15, <1>16 DEF SpiInv

\* The next frame is pushed.
LEMMA PushStep == SpiInv /\ SpiPush => SpiInv'
<1> SUFFICES ASSUME SpiInv, SpiPush PROVE SpiInv'
  OBVIOUS
<1> DEFINE after == IF SpiHead.tx > 0
                    THEN [SpiHead EXCEPT !.tx = @ - 1, !.sent = @ + 1]
                    ELSE [SpiHead EXCEPT !.tail = @ - 1, !.sent = @ + 1]
           last == ~(after.tx > 0 \/ after.tail > 0)
           f == [number |-> SpiHead.sent, eoq |-> last]
<1>1. /\ spiPc = "act" /\ spiStatus.tfff
      /\ ~(spiStatus.rfdf /\ SpiHead.rx > 0)
      /\ SpiHead.tx > 0 \/ SpiHead.tail > 0
      /\ spiPc' = "read" /\ UNCHANGED <<spiQueue, spiStatus>>
  BY DEF SpiPush, Drains, Pushes
<1>2. spiQueue # <<>>
  BY <1>1 DEF SpiInv, SpiWaiting
<1>3. /\ SpiHead \in Counts
      /\ SpiHead.tx \in Nat /\ SpiHead.rx \in Nat /\ SpiHead.tail \in Nat
      /\ SpiHead.sent \in Nat /\ SpiHead.got \in Nat
  BY <1>2, SpiHeadTypes DEF SpiInv
<1>4. /\ dspi.tx \in Seq(Frame) /\ dspi.rx \in Seq(Frame) /\ dspi.shift \in Seq(Frame)
      /\ Len(dspi.rx) \in Nat /\ Len(dspi.shift) \in Nat /\ Len(dspi.tx) \in Nat
  BY DspiTypes DEF SpiInv
<1>5. /\ spiCtx' = [spiCtx EXCEPT ![Head(spiQueue)] = after]
      /\ dspi' = [dspi EXCEPT !.tx = Append(dspi.tx, f)]
  BY DEF SpiPush
<1>6. /\ after \in Counts
      /\ after.sent = SpiHead.sent + 1
      /\ after.rx = SpiHead.rx /\ after.got = SpiHead.got
      /\ after.tx \in Nat /\ after.tail \in Nat
  <2>1. CASE SpiHead.tx > 0
    <3>1. SpiHead.tx - 1 \in Nat /\ SpiHead.sent + 1 \in Nat
      BY <1>3, <2>1
    <3>2. after = [SpiHead EXCEPT !.tx = SpiHead.tx - 1, !.sent = SpiHead.sent + 1]
      BY <2>1
    <3> HIDE DEF after
    <3> QED
      BY <1>3, <3>1, <3>2 DEF Counts
  <2>2. CASE ~(SpiHead.tx > 0)
    <3>1. SpiHead.tail - 1 \in Nat /\ SpiHead.sent + 1 \in Nat
      BY <1>1, <1>3, <2>2
    <3>2. after = [SpiHead EXCEPT !.tail = SpiHead.tail - 1, !.sent = SpiHead.sent + 1]
      BY <2>2
    <3> HIDE DEF after
    <3> QED
      BY <1>3, <3>1, <3>2 DEF Counts
  <2> QED
    BY <2>1, <2>2
<1> HIDE DEF after
<1>7. last \in BOOLEAN /\ (last => after.tx = 0 /\ after.tail = 0)
  BY <1>6
<1> HIDE DEF last
<1>8. f \in Frame /\ f.number = SpiHead.sent /\ f.eoq = last
  BY <1>3, <1>7 DEF Frame
<1> HIDE DEF f
<1>9. /\ spiCtx' \in [SpiCtxs -> Counts] /\ SpiHead' = after /\ SpiWaiting'
  BY <1>1, <1>2, <1>5, <1>6, HeadUpdate DEF SpiInv
<1>10. /\ Append(dspi.tx, f) \in Seq(Frame)
       /\ Len(Append(dspi.tx, f)) = Len(dspi.tx) + 1
       /\ \A i \in 1..Len(dspi.tx) : Append(dspi.tx, f)[i] = dspi.tx[i]
       /\ Append(dspi.tx, f)[Len(dspi.tx) + 1] = f
  BY <1>4, <1>8, AppendProperties
<1>11. /\ dspi'.tx = Append(dspi.tx, f) /\ dspi'.rx = dspi.rx
       /\ dspi'.shift = dspi.shift
       /\ dspi'.eoqf = dspi.eoqf /\ dspi'.rie = dspi.rie
  BY <1>5 DEF SpiInv, SpiTypeOK
<1>12. SpiTypeOK'
  <2>1. dspi' \in [tx : Seq(Frame), shift : Seq(Frame), rx : Seq(Frame),
                   eoqf : BOOLEAN, rie : BOOLEAN, tie : BOOLEAN]
    BY <1>5, <1>10 DEF SpiInv, SpiTypeOK
  <2> QED
    BY <1>1, <1>9, <1>11, <2>1 DEF SpiInv, SpiTypeOK
<1>13. SpiEnding'
  <2>1. ~SpiSentAll
    BY <1>1, <1>3 DEF SpiSentAll
  <2>2. /\ \A i \in 1..Len(dspi.shift) : ~dspi.shift[i].eoq
        /\ \A i \in 1..Len(dspi.tx) : ~dspi.tx[i].eoq
        /\ ~dspi.eoqf
    BY <1>2, <2>1 DEF SpiInv, SpiEnding
  <2>3. ASSUME NEW i \in 1..Len(dspi'.tx), dspi'.tx[i].eoq
        PROVE  i = Len(dspi'.tx) /\ SpiSentAll'
    <3>1. i = Len(dspi.tx) + 1
      BY <1>4, <1>10, <1>11, <2>2, <2>3
    <3>2. last
      BY <1>8, <1>10, <1>11, <2>3, <3>1
    <3> QED
      BY <1>7, <1>9, <1>10, <1>11, <3>1, <3>2 DEF SpiSentAll
  <2> QED
    BY <1>1, <1>2, <1>11, <2>2, <2>3 DEF SpiEnding
<1>14. SpiFlowing'
  <2> SUFFICES ASSUME SpiHead.rx > 0
               PROVE  /\ dspi.rie
                      /\ Numbered(dspi.rx, SpiHead.got)
                      /\ Numbered(dspi.shift, SpiHead.got + Len(dspi.rx))
                      /\ Numbered(Append(dspi.tx, f),
                                  SpiHead.got + Len(dspi.rx) + Len(dspi.shift))
                      /\ after.sent = SpiHead.got + (Len(dspi.rx) + Len(dspi.shift)
                                                        + Len(Append(dspi.tx, f)))
                      /\ Len(dspi.rx) + Len(dspi.shift) + Len(Append(dspi.tx, f))
                             <= SpiDepth + 1
    BY <1>6, <1>9, <1>11 DEF SpiFlowing, UnderWay, Numbered
  <2>1. /\ dspi.rie
        /\ Numbered(dspi.rx, SpiHead.got)
        /\ Numbered(dspi.shift, SpiHead.got + Len(dspi.rx))
        /\ Numbered(dspi.tx, SpiHead.got + Len(dspi.rx) + Len(dspi.shift))
        /\ SpiHead.sent = SpiHead.got + (Len(dspi.rx) + Len(dspi.shift) + Len(dspi.tx))
    BY <1>2 DEF SpiInv, SpiFlowing, UnderWay
  <2>2. Len(dspi.rx) + Len(dspi.shift) + Len(dspi.tx) <= SpiDepth
    BY <1>1 DEF SpiInv, SpiCopies, UnderWay
  <2> DEFINE nr == Len(dspi.rx)
             ns == Len(dspi.shift)
             nt == Len(dspi.tx)
             got == SpiHead.got
             m == got + nr + ns
  <2>3. nr \in Nat /\ ns \in Nat /\ nt \in Nat /\ got \in Nat /\ SpiDepth \in Nat
    BY <1>3, <1>4, SpiAssumption
  <2>4. SpiHead.sent = got + (nr + ns + nt) /\ nr + ns + nt <= SpiDepth
    BY <2>1, <2>2
  <2>5. Numbered(dspi.tx, m)
    BY <2>1
  <2> HIDE DEF nr, ns, nt, got
  <2>6. /\ after.sent = got + (nr + ns + (nt + 1))
        /\ nr + ns + (nt + 1) <= SpiDepth + 1
        /\ SpiHead.sent = m + nt /\ m \in Nat
    BY <1>6, <2>3, <2>4
  <2> HIDE DEF m
  <2>7. Numbered(Append(dspi.tx, f), m)
    BY <1>4, <1>8, <2>5, <2>6, NumberedAppend DEF nt
  <2> QED
    BY <1>10, <2>1, <2>6, <2>7 DEF nr, ns, nt, got, m
<1>15. SpiCopies'
  BY <1>1 DEF SpiCopies
<1> QED
  BY <1>9, <1>12, <1>13, <1>14, <1>15 DEF SpiInv

\* The transfer is done and the next one starts.
LEMMA FinishStep == SpiInv /\ SpiFinish => SpiInv'
<1> SUFFICES ASSUME SpiInv, SpiFinish PROVE SpiInv'
  OBVIOUS
<1>1. /\ spiPc = "act" /\ spiStatus.eoqf
      /\ spiPc' = "callback" /\ UNCHANGED <<spiCtx, spiStatus>>
      /\ spiQueue' = Tail(spiQueue)
  BY DEF SpiFinish, Finishes
<1>2. spiQueue # <<>> /\ spiQueue \in Seq(SpiCtxs)
  BY <1>1 DEF SpiInv, SpiWaiting, SpiTypeOK
<1>3. dspi.shift = <<>> /\ dspi.tx = <<>>
  BY <1>1, <1>2 DEF SpiInv, SpiEnding, SpiCopies
<1>4. /\ spiQueue' \in Seq(SpiCtxs)
      /\ Len(spiQueue) \in Nat \ {0} /\ Len(spiQueue') = Len(spiQueue) - 1
      /\ \A i \in 1..Len(spiQueue) - 1 : spiQueue'[i] = spiQueue[i + 1]
  BY <1>1, <1>2
<1>5. spiQueue' # <<>> =>
        /\ Head(spiQueue') = spiQueue[2] /\ spiQueue[2] \in SpiCtxs
        /\ 2 \in 2..Len(spiQueue)
  BY <1>2, <1>4
<1>6. spiQueue' # <<>> =>
        /\ SpiHead' = spiCtx[spiQueue[2]] /\ SpiHead' \in Counts
        /\ SpiHead'.sent = 0 /\ SpiHead'.got = 0
  BY <1>1, <1>5 DEF SpiInv, SpiTypeOK, SpiWaiting, SpiHead
<1>7. /\ spiQueue' = <<>> => dspi' = SpiStopped
      /\ spiQueue' # <<>> => dspi' = SpiStarted(SpiHead')
  BY <1>1 DEF SpiFinish, SpiHead
<1>8. /\ dspi' \in [tx : Seq(Frame), shift : Seq(Frame), rx : Seq(Frame),
                    eoqf : BOOLEAN, rie : BOOLEAN, tie : BOOLEAN]
      /\ dspi'.tx = <<>> /\ dspi'.shift = <<>>
      /\ spiQueue' # <<>> => FreshHead'
  <2>1. CASE spiQueue' = <<>>
    BY <1>3, <1>7, <2>1 DEF SpiInv, SpiTypeOK, SpiStopped
  <2>2. CASE spiQueue' # <<>>
    <3> DEFINE h == SpiHead'
    <3>1. dspi' = SpiStarted(h) /\ h.rx \in Nat
      BY <1>6, <1>7, <2>2 DEF Counts
    <3>2. h.sent = 0 /\ h.got = 0
      BY <1>6, <2>2
    <3> HIDE DEF h
    <3>3. /\ dspi' \in [tx : Seq(Frame), shift : Seq(Frame), rx : Seq(Frame),
                        eoqf : BOOLEAN, rie : BOOLEAN, tie : BOOLEAN]
          /\ dspi'.tx = <<>> /\ dspi'.rx = <<>> /\ dspi'.shift = dspi.shift
          /\ dspi'.eoqf = FALSE
          /\ dspi'.rie <=> h.rx > 0
      BY <3>1, StartedTypes DEF SpiInv
    <3>4. FreshHead'
      BY <1>3, <2>2, <3>1, <3>2, <3>3 DEF FreshHead, h
    <3> QED
      BY <1>3, <3>3, <3>4
  <2> QED
    BY <2>1, <2>2
<1>9. SpiTypeOK'
  BY <1>1, <1>4, <1>8 DEF SpiInv, SpiTypeOK
<1>10. SpiWaiting'
  <2>1. ASSUME NEW i \in 1..Len(spiQueue) - 1, NEW j \in 1..Len(spiQueue) - 1,
               spiQueue'[i] = spiQueue'[j]
        PROVE  i = j
    <3>1. i + 1 \in 1..Len(spiQueue) /\ j + 1 \in 1..Len(spiQueue)
      BY <1>4
    <3>2. i + 1 = j + 1
      BY <1>4, <2>1, <3>1 DEF SpiInv, SpiWaiting
    <3> QED
      BY <3>2
  <2>2. ASSUME NEW i \in 2..Len(spiQueue) - 1
        PROVE  spiCtx[spiQueue'[i]].sent = 0 /\ spiCtx[spiQueue'[i]].got = 0
    <3>1. i + 1 \in 2..Len(spiQueue) /\ i \in 1..Len(spiQueue) - 1
      BY <1>4
    <3>2. spiQueue'[i] = spiQueue[i + 1]
      BY <1>4, <3>1
    <3> QED
      BY <3>1, <3>2 DEF SpiInv, SpiWaiting
  <2> QED
    BY <1>1, <1>4, <2>1, <2>2 DEF SpiWaiting
<1>11. SpiEnding' /\ SpiFlowing'
  <2>1. CASE spiQueue' = <<>>
    BY <1>8, <2>1 DEF SpiEnding, SpiFlowing
  <2>2. CASE spiQueue' # <<>>
    <3>1. (FreshHead => SpiEnding /\ SpiFlowing)'
      BY FreshHeadFlows, PTL
    <3> QED
      BY <1>8, <2>2, <3>1
  <2> QED
    BY <2>1, <2>2
<1>12. SpiCopies'
  BY <1>1 DEF SpiCopies
<1> QED
  BY <1>9, <1>10, <1>11, <1>12 DEF SpiInv

-----------------------------------------------------------------------------
(* The theorem                                                             *)

LEMMA SpiInitInv == SpiInit => SpiInv
<1> SUFFICES ASSUME SpiInit PROVE SpiInv
  OBVIOUS
<1>1. /\ spiQueue = <<>> /\ spiPc = "thread"
      /\ spiCtx = [c \in SpiCtxs |-> NoTransfer]
      /\ spiStatus = NoStatus /\ dspi = FreshDspi
  BY DEF SpiInit
<1>2. NoTransfer \in Counts /\ FreshDspi.shift = <<>> /\ FreshDspi.tx = <<>>
  BY DEF NoTransfer, Counts, FreshDspi
<1>3. NoStatus \in [rfdf : BOOLEAN, tfff : BOOLEAN, eoqf : BOOLEAN, rxctr : Nat]
  BY DEF NoStatus
<1>4. /\ FreshDspi \in [tx : Seq(Frame), shift : Seq(Frame), rx : Seq(Frame),
                        eoqf : BOOLEAN, rie : BOOLEAN, tie : BOOLEAN]
      /\ Len(FreshDspi.shift) <= 1
  BY DEF FreshDspi
<1>5. SpiTypeOK
  BY <1>1, <1>2, <1>3, <1>4 DEF SpiTypeOK
<1>6. SpiWaiting /\ SpiEnding /\ SpiFlowing /\ SpiCopies
  BY <1>1, <1>2 DEF SpiWaiting, SpiEnding, SpiFlowing, SpiCopies
<1> QED
  BY <1>5, <1>6 DEF SpiInv

LEMMA SpiNextInv == SpiInv /\ [SpiNext]_spiVars => SpiInv'
<1> SUFFICES ASSUME SpiInv, [SpiNext]_spiVars PROVE SpiInv'
  OBVIOUS
<1>1. ASSUME NEW c \in SpiCtxs, NEW len \in SpiLengths, SpiQueue(c, len)
      PROVE  SpiInv'
  BY <1>1, QueueStep
<1>2. CASE SpiInterrupt \/ SpiExit \/ SpiCallbackReturns
  BY <1>2, EnterLeaveStep
<1>3. CASE SpiReadStatus
  BY <1>3, ReadStatusStep
<1>4. CASE SpiDrain
  BY <1>4, DrainStep
<1>5. CASE SpiPush
  BY <1>5, PushStep
<1>6. CASE SpiFinish
  BY <1>6, FinishStep
<1>7. CASE DspiLoad
  BY <1>7, LoadStep
<1>8. CASE DspiShift
  BY <1>8, ShiftStep
<1>9. CASE UNCHANGED spiVars
  BY <1>9 DEF spiVars, SpiInv, SpiTypeOK, SpiWaiting, SpiEnding, SpiFlowing,
              SpiCopies, SpiSentAll, SpiHead, Numbered, UnderWay
<1> QED
  BY <1>1, <1>2, <1>3, <1>4, <1>5, <1>6, <1>7, <1>8, <1>9 DEF SpiNext, SpiHandler

\* The numbers of what is under way, as SpiInStep writes them.
LEMMA SpiInvInStep == SpiInv => SpiInStep
<1> SUFFICES ASSUME SpiInv, spiQueue # <<>>, SpiHead.rx > 0
             PROVE  LET frames == dspi.rx \o dspi.shift \o dspi.tx
                    IN [i \in 1..Len(frames) |-> frames[i].number]
                         = [i \in 1..SpiHead.sent - SpiHead.got |-> SpiHead.got + i - 1]
  BY DEF SpiInStep
<1> DEFINE front == dspi.rx \o dspi.shift
           frames == front \o dspi.tx
           got == SpiHead.got
<1>1. /\ dspi.tx \in Seq(Frame) /\ dspi.rx \in Seq(Frame) /\ dspi.shift \in Seq(Frame)
      /\ Len(dspi.rx) \in Nat /\ Len(dspi.shift) \in Nat /\ Len(dspi.tx) \in Nat
  BY DspiTypes DEF SpiInv
<1>2. SpiHead.sent \in Nat /\ got \in Nat
  BY SpiHeadTypes DEF SpiInv
<1>3. /\ Numbered(dspi.rx, got)
      /\ Numbered(dspi.shift, got + Len(dspi.rx))
      /\ Numbered(dspi.tx, got + Len(dspi.rx) + Len(dspi.shift))
      /\ SpiHead.sent = got + (Len(dspi.rx) + Len(dspi.shift) + Len(dspi.tx))
  BY DEF SpiInv, SpiFlowing, UnderWay
<1> HIDE DEF got
<1>4. /\ front \in Seq(Frame) /\ Len(front) = Len(dspi.rx) + Len(dspi.shift)
      /\ Numbered(front, got)
  BY <1>1, <1>2, <1>3, NumberedConcat
<1>5. got + Len(dspi.rx) + Len(dspi.shift) = got + Len(front)
  <2>1. \A m, n, k \in Nat : m + n + k = m + (n + k)
    OBVIOUS
  <2>2. got + Len(dspi.rx) + Len(dspi.shift) = got + (Len(dspi.rx) + Len(dspi.shift))
    BY <1>1, <1>2, <2>1
  <2> QED
    BY <1>4, <2>2
<1> HIDE DEF front
<1>6. /\ frames \in Seq(Frame) /\ Len(frames) = Len(front) + Len(dspi.tx)
      /\ Numbered(frames, got)
  BY <1>1, <1>2, <1>3, <1>4, <1>5, NumberedConcat
<1>7. Len(frames) = SpiHead.sent - got
  <2>1. PICK r, h, t, n, all : /\ r = Len(dspi.rx) /\ h = Len(dspi.shift) /\ t = Len(dspi.tx)
                               /\ n = SpiHead.sent /\ all = Len(frames)
    OBVIOUS
  <2>2. all = (r + h) + t /\ n = got + (r + h + t)
    BY <1>3, <1>4, <1>6, <2>1
  <2>3. r \in Nat /\ h \in Nat /\ t \in Nat /\ got \in Nat
    BY <1>1, <1>2, <2>1
  <2>4. all = n - got
    BY <2>2, <2>3
  <2> QED
    BY <2>1, <2>4
<1> HIDE DEF frames
<1>8. [i \in 1..Len(frames) |-> frames[i].number]
        = [i \in 1..SpiHead.sent - got |-> got + i - 1]
  BY <1>6, <1>7 DEF Numbered
<1> QED
  BY <1>8 DEF frames, front, got

\* As long as a transfer receives, what is in the controller is exactly what
\* was pushed and not read, in order: for transfers of any length, FIFOs of any
\* depth and whatever is queued behind it.
THEOREM SpiStaysInStep == SpiSpec => []SpiInStep
<1>1. SpiInit => SpiInv
  BY SpiInitInv
<1>2. SpiInv /\ [SpiNext]_spiVars => SpiInv'
  BY SpiNextInv
<1>3. SpiInv => SpiInStep
  BY SpiInvInStep
<1> QED
  BY <1>1, <1>2, <1>3, PTL DEF SpiSpec

-----------------------------------------------------------------------------
(* The radio                                                               *)

DirtyBits == {"rate", "channel", "dyn", "retr", "size", "addr"}
StatusBits == {"RX_DR", "TX_DS", "MAX_RT"}
RegNames == {"RF_SETUP", "RF_CH", "FEATURE", "SETUP_RETR", "CONFIG", "RX_PW",
             "DYNPD", "RX_ADDR_P1", "TX_ADDR", "RX_ADDR_P0"}
Payloads == NrfPayloads \cup {"data", None}

NrfCtxs ==
    [way : {"none", "recv", "send"},
     state : StepNames \cup {"WAITING", "GET_PAYLOAD", "POWER_DOWN", "USER_DATA"},
     addr : NrfRxAddrs \cup NrfTxAddrs \cup {None}, size : Nat,
     payload : Payloads, dyn : BOOLEAN, save : BOOLEAN, rate : NrfRates,
     channel : NrfChannels, ard : Nat, dirty : SUBSET DirtyBits]

Registers(reg) == reg = [r \in RegNames |-> reg[r]]

RadioTypeOK ==
    /\ radio = [reg |-> radio.reg, status |-> radio.status,
                rx |-> radio.rx, tx |-> radio.tx, edge |-> radio.edge]
    /\ Registers(radio.reg) /\ radio.reg["RX_PW"] \in Nat
    /\ radio.status \in SUBSET StatusBits /\ radio.edge \in BOOLEAN
    /\ radio.rx \in Seq(Nat) /\ radio.tx \in Seq(Payloads)

NrfTypeOK ==
    /\ nrf \in NrfCtxs /\ nrfPc \in {"thread", "chain", "status"}
    /\ seen \in SUBSET StatusBits /\ ce \in BOOLEAN
    /\ held \in SUBSET {"recv", "send", "width", "delay"}
    /\ RadioTypeOK

\* What is on the bus: at most one command of the chain, and the write that
\* clears the status, in front of it or behind.
Of(cmd, value, cb, done) == [cmd |-> cmd, value |-> value, cb |-> cb, done |-> done]
Clear(done) == Of("STATUS", None, "none", done)
Read(done) == Of("STATUS", None, "status", done)

NoChain == bus = <<>> \/ \E d \in BOOLEAN : bus = <<Clear(d)>>
Chained(queue, cmd, value, done) ==
    \/ queue = <<Of(cmd, value, "chain", done)>>
    \/ queue = <<Of(cmd, value, "chain", done), Clear(FALSE)>>
    \/ ~done /\ \E d \in BOOLEAN : queue = <<Clear(d), Of(cmd, value, "chain", FALSE)>>

\* The status is going to be cleared, or to be cleared behind the chain.
ClearComes == nrfPc = "status" \/ \E i \in 1..Len(bus) : bus[i].cb = "none" /\ ~bus[i].done
ClearBehind == nrfPc = "status" \/ (Len(bus) = 2 /\ bus[2].cb = "none")
Off == ~ce /\ ~radio.edge
Answered == radio.status \subseteq seen /\ (radio.status = {} \/ ClearComes)

\* The place of a step.
Order == [recv |-> [RF_SETUP |-> 1, RF_CH |-> 2, FEATURE |-> 3, SETUP_RETR |-> 4,
                    CONFIG |-> 5, RX_PW |-> 6, DYNPD |-> 7, RX_ADDR_P1 |-> 8, CE |-> 9],
          send |-> [RF_SETUP |-> 1, RF_CH |-> 2, FEATURE |-> 3, SETUP_RETR |-> 4,
                    CONFIG |-> 5, TX_ADDR |-> 6, RX_ADDR_P0 |-> 7, DYNPD |-> 8,
                    TX_PAYLOAD |-> 9, CE |-> 10]]

\* What registers are taken to hold while their dirty bit is not set, and while
\* the address, the length and the delay are in h.
Common == {"RF_SETUP", "RF_CH", "FEATURE", "SETUP_RETR", "DYNPD"}
HoldsRecv(ctx, h, reg) == "recv" \in h => reg["RX_ADDR_P1"] = ctx.addr
HoldsSend(ctx, h, reg) ==
    "send" \in h => reg["TX_ADDR"] = ctx.addr /\ reg["RX_ADDR_P0"] = ctx.addr
HoldsWidth(ctx, h, reg) == "width" \in h => reg["RX_PW"] = ctx.size

Known(ctx, h, reg) ==
    /\ \A r \in Common : DirtyBit[r] \in ctx.dirty \/ reg[r] = StepValue(ctx, r)
    /\ HoldsRecv(ctx, h, reg) /\ HoldsSend(ctx, h, reg) /\ HoldsWidth(ctx, h, reg)
    /\ "size" \notin ctx.dirty
Slow(ctx, h) ==
    ctx.rate = Kbps250 /\ "delay" \in h => "rate" \in ctx.dirty \/ ctx.ard >= 1

\* What a request leaves as it is.
Kept(ctx, h, reg) ==
    /\ ctx.way # "recv" => HoldsRecv(ctx, h, reg) /\ HoldsWidth(ctx, h, reg)
    /\ ctx.way # "send" => HoldsSend(ctx, h, reg)

\* A request as it was made.
Asking(ctx) == (ctx.way = "recv" /\ ctx.payload # None) \/ ctx.way = "send"

\* Registers that need not be right.
Exempt(h, r) ==
    \/ r \in {"TX_PAYLOAD", "CE"}
    \/ r = "RX_ADDR_P1" /\ "recv" \notin h
    \/ r \in {"TX_ADDR", "RX_ADDR_P0"} /\ "send" \notin h
    \/ r = "RX_PW" /\ "width" \notin h

\* The registers reg are right for ctx, but for steps from the k-th on that are
\* still to be written.
RightUpTo(ctx, h, reg, k) ==
    /\ \A r \in DOMAIN Order[ctx.way] :
          \/ Exempt(h, r) \/ reg[r] = StepValue(ctx, r)
          \/ Order[ctx.way][r] >= k /\ (r = "CONFIG" \/ DirtyBit[r] \in ctx.dirty)
    /\ \A r \in DOMAIN Order[ctx.way] :
          r \in DOMAIN DirtyBit \ {"FEATURE", "TX_ADDR"} /\ Order[ctx.way][r] < k
             => DirtyBit[r] \notin ctx.dirty
    /\ ctx.dyn \/ ctx.way = "send" => "size" \notin ctx.dirty

\* Something is still to be written from the k-th step on.
MoreFrom(ctx, k) ==
    \E r \in DOMAIN Order[ctx.way] :
       /\ r # "CE" /\ Order[ctx.way][r] >= k /\ Needed(ctx, r)

\* The registers when cmd has been written.
Written(ctx, reg, cmd) ==
    IF cmd \in RegNames THEN [reg EXCEPT ![cmd] = StepValue(ctx, cmd)] ELSE reg

Outcome ==
    IF nrf.way = "send"
    THEN IF nrf.payload # None THEN did = "acked" ELSE did = "failed" /\ nrf.size = 0
    ELSE IF nrf.payload # None THEN did = "read"
         ELSE did = "flushed" /\ nrf.size > MaxPayload

-----------------------------------------------------------------------------
(* The phases of a request                                                 *)

Idle ==
    /\ nrf.state = "USER_DATA" /\ NoChain /\ Off /\ Answered
    /\ Known(nrf, held, radio.reg) /\ radio.tx = <<>>
    /\ nrfPc # "thread" => Outcome
    /\ nrfPc = "status" => bus = <<>> /\ nrf.way = "send"

SettingUp ==
    /\ Asking(nrf) /\ nrf.state \in DOMAIN Order[nrf.way]
    /\ nrf.way = "send" => nrf.payload \in NrfPayloads
    /\ Off /\ Answered
    /\ nrfPc = "status" => Len(bus) = 1
    /\ ClearBehind => MoreFrom(nrf, Order[nrf.way][nrf.state])
    /\ \E cmd \in DOMAIN Order[nrf.way], done \in BOOLEAN :
          /\ cmd # "CE" /\ Order[nrf.way][nrf.state] = Order[nrf.way][cmd] + 1
          /\ Chained(bus, cmd, StepValue(nrf, cmd), done)
          /\ radio.tx = IF done /\ cmd = "TX_PAYLOAD" THEN <<nrf.payload>> ELSE <<>>
          /\ RightUpTo(nrf, held, IF done THEN radio.reg ELSE Written(nrf, radio.reg, cmd),
                       Order[nrf.way][nrf.state])

\* All is written.
Ready ==
    /\ Asking(nrf) /\ nrf.dirty = {}
    /\ \A r \in DOMAIN Order[nrf.way] :
          Exempt(held, r) \/ radio.reg[r] = StepValue(nrf, r)

\* What the status of the radio, and the FIFOs, say of the request.
OnWay(events) ==
    IF nrf.way = "send"
    THEN /\ nrf.payload \in NrfPayloads
         /\ \/ events = {} /\ radio.tx = <<nrf.payload>>
            \/ events = {"TX_DS"} /\ radio.tx = <<>> /\ did = "acked"
            \/ events = {"MAX_RT"} /\ radio.tx = <<nrf.payload>> /\ did = "failed"
    ELSE /\ events \subseteq {"RX_DR"} /\ radio.tx = <<>>
         /\ "RX_DR" \in events => radio.rx # <<>>

Waiting ==
    /\ nrf.state = "WAITING" /\ nrfPc = "thread" /\ Ready
    /\ \/ ce /\ bus = <<>> /\ OnWay(radio.status)
       \/ Off /\ bus = <<Read(FALSE)>> /\ OnWay(radio.status)
       \/ Off /\ bus = <<Read(TRUE)>> /\ OnWay(seen) /\ radio.status \subseteq seen
       \/ Off /\ NoChain

Fetching ==
    /\ nrf.state = "GET_PAYLOAD" /\ nrfPc = "thread"
    /\ nrf.way = "recv" /\ nrf.dyn /\ Ready
    /\ Off /\ Answered /\ radio.tx = <<>> /\ radio.rx # <<>>
    /\ \E done \in BOOLEAN :
          /\ bus = <<Of("R_RX_PL_WID", None, "chain", done), Clear(FALSE)>>
          /\ done => nrf.size = Head(radio.rx)

Finishing ==
    /\ nrf.state \in {"POWER_DOWN", "USER_DATA"} /\ nrfPc = "thread"
    /\ Known(nrf, held, radio.reg) /\ nrf.dirty = {} /\ Off /\ Answered
    /\ \E cmd \in {"R_RX_PAYLOAD", "FLUSH_RX", "FLUSH_TX", "CONFIG"}, done \in BOOLEAN :
          /\ Chained(bus, cmd, IF cmd = "CONFIG" THEN Config(nrf, FALSE) ELSE None, done)
          /\ \/ (done \/ cmd = "CONFIG") /\ radio.tx = <<>> /\ Outcome
             \/ /\ ~done /\ nrf.way = "send" /\ cmd = "FLUSH_TX" /\ Outcome
             \/ /\ ~done /\ nrf.way = "recv" /\ radio.tx = <<>>
                /\ \/ /\ cmd = "R_RX_PAYLOAD" /\ nrf.payload # None /\ radio.rx # <<>>
                      /\ nrf.dyn => Head(radio.rx) = nrf.size
                   \/ cmd = "FLUSH_RX" /\ nrf.payload = None /\ nrf.size > MaxPayload
          /\ nrf.way = "recv" \/ (nrf.way = "send" /\ cmd \in {"FLUSH_TX", "CONFIG"})

NrfInd ==
    /\ NrfTypeOK /\ Slow(nrf, held) /\ Kept(nrf, held, radio.reg)
    /\ Idle \/ SettingUp \/ Waiting \/ Fetching \/ Finishing

\* Sequences of one and two transfers.
LEMMA Pairs ==
    ASSUME NEW a, NEW b
    PROVE  /\ <<a>> \o <<>> = <<a>> /\ <<>> \o <<a>> = <<a>>
           /\ <<a>> \o <<b>> = <<a, b>> /\ <<a>> \o <<b>> \o <<>> = <<a, b>>
           /\ <<>> \o <<a>> \o <<b>> = <<a, b>>
           /\ Append(<<>>, a) = <<a>> /\ Append(<<a>>, b) = <<a, b>>
           /\ Head(<<a>>) = a /\ Tail(<<a>>) = <<>>
           /\ Head(<<a, b>>) = a /\ Tail(<<a, b>>) = <<b>>
           /\ [<<a>> EXCEPT ![1] = b] = <<b>>
<1> DEFINE S == {a, b}
           s == <<a>>
           t == <<b>>
           u == <<a, b>>
<1>1. /\ s \in Seq(S) /\ Len(s) = 1 /\ s[1] = a
      /\ t \in Seq(S) /\ Len(t) = 1 /\ t[1] = b
      /\ u \in Seq(S) /\ Len(u) = 2 /\ u[1] = a /\ u[2] = b
  OBVIOUS
<1> HIDE DEF s, t, u, S
<1>2. s \o <<>> = s /\ <<>> \o s = s /\ t \o <<>> = t /\ u \o <<>> = u
  BY <1>1, ConcatEmptySeq
<1>3. s \o t = u
  <2>1. /\ s \o t \in Seq(S) /\ Len(s \o t) = Len(s) + Len(t)
        /\ \A i \in 1..Len(s) + Len(t) :
              (s \o t)[i] = IF i <= Len(s) THEN s[i] ELSE t[i - Len(s)]
    BY <1>1, ConcatProperties
  <2> DEFINE v == s \o t
  <2> HIDE DEF v
  <2>2. v \in Seq(S) /\ Len(v) = 2 /\ v[1] = a /\ v[2] = b
    BY <1>1, <2>1 DEF v
  <2>3. Len(v) = Len(u) /\ \A i \in 1..Len(v) : v[i] = u[i]
    BY <1>1, <2>2
  <2>4. v = u
    BY <1>1, <2>2, <2>3, SeqEqual
  <2> QED
    BY <2>4 DEF v
<1>4. /\ <<a>> \o <<>> = <<a>> /\ <<>> \o <<a>> = <<a>>
      /\ <<a>> \o <<b>> = <<a, b>> /\ <<a>> \o <<b>> \o <<>> = <<a, b>>
      /\ <<>> \o <<a>> \o <<b>> = <<a, b>>
  BY <1>2, <1>3 DEF s, t, u
<1>5. Append(<<>>, a) = <<a>> /\ Append(<<a>>, b) = <<a, b>>
  <2>1. Append(s, b) = s \o <<b>>
    BY <1>1, AppendIsConcat DEF S
  <2>2. Append(<<>>, a) = <<>> \o <<a>>
    BY EmptySeq, AppendIsConcat DEF S
  <2> QED
    BY <1>4, <2>1, <2>2 DEF s
<1>6. Head(<<a>>) = a /\ Head(<<a, b>>) = a
  OBVIOUS
<1>7. Tail(<<a>>) = <<>> /\ Tail(<<a, b>>) = <<b>>
  OBVIOUS
<1>8. [<<a>> EXCEPT ![1] = b] = <<b>>
  OBVIOUS
<1> QED
  BY <1>4, <1>5, <1>6, <1>7, <1>8

\* What a step changes of the context.
Slows(ctx, cmd) == cmd = "RF_SETUP" /\ ctx.rate = Kbps250 /\ ctx.ard = 0
Cleans(cmd) == IF cmd \in DOMAIN DirtyBit \ {"FEATURE", "TX_ADDR"}
               THEN {DirtyBit[cmd]} ELSE {}
Remains(ctx, cmd) ==
    (IF Slows(ctx, cmd) THEN ctx.dirty \cup {"retr"} ELSE ctx.dirty) \ Cleans(cmd)
Stepped(ctx, cmd, next) == [Prepared(ctx, cmd) EXCEPT !.state = next]
LetLoose(ctx) == [ctx EXCEPT !.state = "WAITING"]

-----------------------------------------------------------------------------
(* The steps and their order                                               *)

\* What follows Setup comes after its five steps.
LEMMA AfterSetup ==
    ASSUME NEW t \in Seq(StepNames)
    PROVE  LET s == Setup \o t
           IN /\ s \in Seq(StepNames) /\ Len(s) = 5 + Len(t)
              /\ s[1] = "RF_SETUP" /\ s[2] = "RF_CH" /\ s[3] = "FEATURE"
              /\ s[4] = "SETUP_RETR" /\ s[5] = "CONFIG"
              /\ \A i \in 6..5 + Len(t) : s[i] = t[i - 5]
<1> DEFINE s == Setup \o t
<1>1. Setup \in Seq(StepNames) /\ Len(Setup) = 5
  BY DEF Setup, StepNames
<1>2. /\ Setup[1] = "RF_SETUP" /\ Setup[2] = "RF_CH" /\ Setup[3] = "FEATURE"
      /\ Setup[4] = "SETUP_RETR" /\ Setup[5] = "CONFIG"
  BY DEF Setup
<1>3. Len(t) \in Nat
  OBVIOUS
<1>4. /\ s \in Seq(StepNames) /\ Len(s) = Len(Setup) + Len(t)
      /\ \A i \in 1..Len(Setup) + Len(t) :
            s[i] = IF i <= Len(Setup) THEN Setup[i] ELSE t[i - Len(Setup)]
  BY <1>1, ConcatProperties
<1> HIDE DEF s
<1>5. /\ s[1] = Setup[1] /\ s[2] = Setup[2] /\ s[3] = Setup[3] /\ s[4] = Setup[4]
      /\ s[5] = Setup[5]
  BY <1>1, <1>3, <1>4
<1>6. \A i \in 6..5 + Len(t) : s[i] = t[i - 5]
  BY <1>1, <1>3, <1>4
<1> QED
  BY <1>1, <1>2, <1>4, <1>5, <1>6 DEF s

LEMMA StepsRecv ==
    Steps["recv"] = <<"RF_SETUP", "RF_CH", "FEATURE", "SETUP_RETR", "CONFIG",
                      "RX_PW", "DYNPD", "RX_ADDR_P1", "CE">>
<1> DEFINE t == <<"RX_PW", "DYNPD", "RX_ADDR_P1", "CE">>
           s == Setup \o t
           u == <<"RF_SETUP", "RF_CH", "FEATURE", "SETUP_RETR", "CONFIG",
                  "RX_PW", "DYNPD", "RX_ADDR_P1", "CE">>
<1>1. /\ t \in Seq(StepNames) /\ Len(t) = 4
      /\ t[1] = "RX_PW" /\ t[2] = "DYNPD" /\ t[3] = "RX_ADDR_P1" /\ t[4] = "CE"
  BY DEF StepNames
<1>2. Steps["recv"] = s
  BY DEF Steps
<1>3. /\ u \in Seq(StepNames) /\ Len(u) = 9
      /\ u[1] = "RF_SETUP" /\ u[2] = "RF_CH" /\ u[3] = "FEATURE"
      /\ u[4] = "SETUP_RETR" /\ u[5] = "CONFIG"
      /\ u[6] = "RX_PW" /\ u[7] = "DYNPD" /\ u[8] = "RX_ADDR_P1" /\ u[9] = "CE"
  BY DEF StepNames
<1> HIDE DEF t, u
<1>4. /\ s \in Seq(StepNames) /\ Len(s) = 5 + Len(t)
      /\ s[1] = "RF_SETUP" /\ s[2] = "RF_CH" /\ s[3] = "FEATURE"
      /\ s[4] = "SETUP_RETR" /\ s[5] = "CONFIG"
      /\ \A i \in 6..5 + Len(t) : s[i] = t[i - 5]
  BY <1>1, AfterSetup
<1> HIDE DEF s
<1>5. s[6] = t[1] /\ s[7] = t[2] /\ s[8] = t[3] /\ s[9] = t[4]
  BY <1>1, <1>4
<1>6. \A i \in 1..Len(s) : s[i] = u[i]
  BY <1>1, <1>3, <1>4, <1>5
<1>7. Len(s) = Len(u)
  BY <1>1, <1>3, <1>4
<1>8. s = u
  BY <1>3, <1>4, <1>6, <1>7, SeqEqual, Zenon
<1> QED
  BY <1>2, <1>8 DEF u

LEMMA StepsSend ==
    Steps["send"] = <<"RF_SETUP", "RF_CH", "FEATURE", "SETUP_RETR", "CONFIG",
                      "TX_ADDR", "RX_ADDR_P0", "DYNPD", "TX_PAYLOAD", "CE">>
<1> DEFINE t == <<"TX_ADDR", "RX_ADDR_P0", "DYNPD", "TX_PAYLOAD", "CE">>
           s == Setup \o t
           u == <<"RF_SETUP", "RF_CH", "FEATURE", "SETUP_RETR", "CONFIG",
                  "TX_ADDR", "RX_ADDR_P0", "DYNPD", "TX_PAYLOAD", "CE">>
<1>1. /\ t \in Seq(StepNames) /\ Len(t) = 5
      /\ t[1] = "TX_ADDR" /\ t[2] = "RX_ADDR_P0" /\ t[3] = "DYNPD"
      /\ t[4] = "TX_PAYLOAD" /\ t[5] = "CE"
  BY DEF StepNames
<1>2. Steps["send"] = s
  BY DEF Steps
<1>3. /\ u \in Seq(StepNames) /\ Len(u) = 10
      /\ u[1] = "RF_SETUP" /\ u[2] = "RF_CH" /\ u[3] = "FEATURE"
      /\ u[4] = "SETUP_RETR" /\ u[5] = "CONFIG" /\ u[6] = "TX_ADDR"
      /\ u[7] = "RX_ADDR_P0" /\ u[8] = "DYNPD" /\ u[9] = "TX_PAYLOAD" /\ u[10] = "CE"
  BY DEF StepNames
<1> HIDE DEF t, u
<1>4. /\ s \in Seq(StepNames) /\ Len(s) = 5 + Len(t)
      /\ s[1] = "RF_SETUP" /\ s[2] = "RF_CH" /\ s[3] = "FEATURE"
      /\ s[4] = "SETUP_RETR" /\ s[5] = "CONFIG"
      /\ \A i \in 6..5 + Len(t) : s[i] = t[i - 5]
  BY <1>1, AfterSetup
<1> HIDE DEF s
<1>5. s[6] = t[1] /\ s[7] = t[2] /\ s[8] = t[3] /\ s[9] = t[4] /\ s[10] = t[5]
  BY <1>1, <1>4
<1>6. \A i \in 1..Len(s) : s[i] = u[i]
  BY <1>1, <1>3, <1>4, <1>5
<1>7. Len(s) = Len(u)
  BY <1>1, <1>3, <1>4
<1>8. s = u
  BY <1>3, <1>4, <1>6, <1>7, SeqEqual, Zenon
<1> QED
  BY <1>2, <1>8 DEF u

\* Steps and Order say the same.
LEMMA StepsOrder ==
    ASSUME NEW way \in {"recv", "send"}
    PROVE  /\ Len(Steps[way]) \in Nat \ {0}
           /\ \A i \in 1..Len(Steps[way]) :
                 /\ Steps[way][i] \in DOMAIN Order[way]
                 /\ Order[way][Steps[way][i]] = i
           /\ \A r \in DOMAIN Order[way] :
                 /\ Order[way][r] \in 1..Len(Steps[way])
                 /\ Steps[way][Order[way][r]] = r
           /\ "CE" \in DOMAIN Order[way] /\ Order[way]["CE"] = Len(Steps[way])
<1>1. CASE way = "recv"
  <2>1. Order[way] = [RF_SETUP |-> 1, RF_CH |-> 2, FEATURE |-> 3, SETUP_RETR |-> 4,
                    CONFIG |-> 5, RX_PW |-> 6, DYNPD |-> 7, RX_ADDR_P1 |-> 8, CE |-> 9]
    BY <1>1 DEF Order
  <2>2. Steps[way] = <<"RF_SETUP", "RF_CH", "FEATURE", "SETUP_RETR", "CONFIG",
                      "RX_PW", "DYNPD", "RX_ADDR_P1", "CE">>
    BY <1>1, StepsRecv
  <2>3. Len(Steps[way]) = 9
    BY <2>2
  <2> QED
    BY <2>1, <2>2, <2>3
<1>2. CASE way = "send"
  <2>1. Order[way] = [RF_SETUP |-> 1, RF_CH |-> 2, FEATURE |-> 3, SETUP_RETR |-> 4,
                    CONFIG |-> 5, TX_ADDR |-> 6, RX_ADDR_P0 |-> 7, DYNPD |-> 8,
                    TX_PAYLOAD |-> 9, CE |-> 10]
    BY <1>2 DEF Order
  <2>2. Steps[way] = <<"RF_SETUP", "RF_CH", "FEATURE", "SETUP_RETR", "CONFIG",
                      "TX_ADDR", "RX_ADDR_P0", "DYNPD", "TX_PAYLOAD", "CE">>
    BY <1>2, StepsSend
  <2>3. Len(Steps[way]) = 10
    BY <2>2
  <2> QED
    BY <2>1, <2>2, <2>3
<1> QED
  BY <1>1, <1>2

\* The switch stops at the first step that is needed.
LEMMA NextStepFacts ==
    ASSUME NEW ctx, ctx.way \in {"recv", "send"}, ctx.state \in DOMAIN Order[ctx.way]
    PROVE  LET P == Order[ctx.way]
               i == NextStep(ctx)
           IN /\ i \in P[ctx.state]..Len(Steps[ctx.way]) /\ Needed(ctx, Steps[ctx.way][i])
              /\ \A j \in P[ctx.state]..i - 1 : ~Needed(ctx, Steps[ctx.way][j])
<1> DEFINE steps == Steps[ctx.way]
           P == Order[ctx.way]
           from == CHOOSE i \in DOMAIN steps : steps[i] = ctx.state
           Stop(i) == /\ Needed(ctx, steps[i])
                      /\ \A j \in from..i - 1 : ~Needed(ctx, steps[j])
<1>1. /\ Len(steps) \in Nat \ {0}
      /\ \A i \in 1..Len(steps) : steps[i] \in DOMAIN P /\ P[steps[i]] = i
      /\ \A r \in DOMAIN P : P[r] \in 1..Len(steps) /\ steps[P[r]] = r
      /\ "CE" \in DOMAIN P /\ P["CE"] = Len(steps)
  BY StepsOrder
<1>2. DOMAIN steps = 1..Len(steps)
  BY StepsRecv, StepsSend
<1> HIDE DEF steps, P
<1>3. from = P[ctx.state]
  <2>1. P[ctx.state] \in DOMAIN steps /\ steps[P[ctx.state]] = ctx.state
    BY <1>1, <1>2 DEF P
  <2>2. from \in DOMAIN steps /\ steps[from] = ctx.state
    BY <2>1
  <2> QED
    BY <1>1, <1>2, <2>2
<1>4. from \in 1..Len(steps)
  BY <1>1, <1>3 DEF P
<1> HIDE DEF from
<1>5. Needed(ctx, steps[Len(steps)])
  <2>1. steps[Len(steps)] = "CE"
    BY <1>1
  <2> QED
    BY <2>1 DEF Needed, DirtyBit
<1>6. \E i \in from..Len(steps) : Stop(i)
  <2> DEFINE T == {i \in from..Len(steps) : Needed(ctx, steps[i])}
  <2>1. T \subseteq Nat /\ Len(steps) \in T
    BY <1>1, <1>4, <1>5
  <2>2. PICK x \in T : \A y \in T : x <= y
    <3> HIDE DEF T
    <3> QED
      BY <2>1, LeastNat
  <2>3. \A j \in from..x - 1 : ~Needed(ctx, steps[j])
    BY <1>1, <1>4, <2>2
  <2> QED
    BY <2>2, <2>3
<1>7. NextStep(ctx) = CHOOSE i \in from..Len(steps) : Stop(i)
  BY DEF NextStep, from, steps
<1> HIDE DEF Stop
<1>8. NextStep(ctx) \in from..Len(steps) /\ Stop(NextStep(ctx))
  BY <1>6, <1>7
<1> QED
  BY <1>3, <1>8 DEF Stop, steps, P

\* What Chain does, told by the names of the steps: it skips to cmd.
SkipsTo(ctx, queue, after, cmd) ==
    /\ Order[ctx.way][cmd] >= Order[ctx.way][ctx.state] /\ Needed(ctx, cmd)
    /\ \A r \in DOMAIN Order[ctx.way] :
          Order[ctx.way][r] \in Order[ctx.way][ctx.state]..Order[ctx.way][cmd] - 1
             => ~Needed(ctx, r)
    /\ IF cmd = "CE"
       THEN nrf' = LetLoose(ctx) /\ bus' = queue \o after
       ELSE \E next \in DOMAIN Order[ctx.way] :
             /\ Order[ctx.way][next] = Order[ctx.way][cmd] + 1
             /\ nrf' = Stepped(ctx, cmd, next)
             /\ bus' = queue \o <<Transfer(cmd, StepValue(Prepared(ctx, cmd), cmd), "chain")>>
                            \o after
    /\ ce' = (ce \/ cmd = "CE") /\ nrfPc' = nrfPc

LEMMA ChainFacts ==
    ASSUME NEW ctx, NEW queue, NEW after,
           ctx.way \in {"recv", "send"}, ctx.state \in DOMAIN Order[ctx.way],
           Chain(ctx, queue, after)
    PROVE  \E cmd \in DOMAIN Order[ctx.way] : SkipsTo(ctx, queue, after, cmd)
<1> DEFINE steps == Steps[ctx.way]
           P == Order[ctx.way]
           i == NextStep(ctx)
           cmd == steps[i]
<1>1. /\ Len(steps) \in Nat \ {0}
      /\ \A j \in 1..Len(steps) : steps[j] \in DOMAIN P /\ P[steps[j]] = j
      /\ \A r \in DOMAIN P : P[r] \in 1..Len(steps) /\ steps[P[r]] = r
      /\ "CE" \in DOMAIN P /\ P["CE"] = Len(steps)
  BY StepsOrder
<1>2. /\ i \in P[ctx.state]..Len(steps) /\ Needed(ctx, steps[i])
      /\ \A j \in P[ctx.state]..i - 1 : ~Needed(ctx, steps[j])
  BY NextStepFacts
<1>3. /\ nrf' = IF cmd = "CE" THEN LetLoose(ctx)
                ELSE Stepped(ctx, cmd, steps[i + 1])
      /\ bus' = IF cmd = "CE" THEN queue \o after
                ELSE queue \o <<Transfer(cmd, StepValue(Prepared(ctx, cmd), cmd), "chain")>>
                           \o after
      /\ ce' = (ce \/ cmd = "CE") /\ nrfPc' = nrfPc
  BY DEF Chain, Stepped, LetLoose
<1>4. P[ctx.state] \in Nat \ {0}
  BY <1>1
<1> HIDE DEF steps, P, i
<1>5. i \in 1..Len(steps)
  BY <1>1, <1>2, <1>4
<1>6. cmd \in DOMAIN P /\ P[cmd] = i
  BY <1>1, <1>5
<1>7. ASSUME NEW r \in DOMAIN P, P[r] \in P[ctx.state]..P[cmd] - 1
      PROVE  ~Needed(ctx, r)
  BY <1>1, <1>2, <1>6, <1>7
<1>8. ASSUME cmd # "CE" PROVE steps[i + 1] \in DOMAIN P /\ P[steps[i + 1]] = i + 1
  <2>1. i # Len(steps)
    BY <1>1, <1>6, <1>8
  <2> QED
    BY <1>1, <1>5, <2>1
<1>9. P[cmd] >= P[ctx.state] /\ Needed(ctx, cmd)
  BY <1>2, <1>4, <1>5, <1>6
<1>10. CASE cmd = "CE"
  BY <1>3, <1>6, <1>7, <1>9, <1>10 DEF P, SkipsTo
<1>11. CASE cmd # "CE"
  BY <1>3, <1>6, <1>7, <1>8, <1>9, <1>11 DEF P, SkipsTo
<1> QED
  BY <1>10, <1>11

\* The places are numbers, and only names of steps have one.
LEMMA OrderTypes ==
    ASSUME NEW way \in {"recv", "send"}
    PROVE  /\ DOMAIN Order[way] \subseteq StepNames
           /\ \A r \in DOMAIN Order[way] : Order[way][r] \in Nat \ {0}
           /\ \A r \in DOMAIN Order[way] \ {"RF_SETUP"} : Order[way][r] > 1
           /\ {"RF_SETUP", "CONFIG", "DYNPD", "CE"} \subseteq DOMAIN Order[way]
           /\ Order[way]["RF_SETUP"] = 1
           /\ \A r, s \in DOMAIN Order[way] : Order[way][r] = Order[way][s] => r = s
<1>1. CASE way = "recv"
  BY <1>1 DEF Order, StepNames
<1>2. CASE way = "send"
  BY <1>2 DEF Order, StepNames
<1> QED
  BY <1>1, <1>2

\* A step clears no bit that a later one looks at.
LEMMA BitKept ==
    ASSUME NEW way \in {"recv", "send"},
           NEW cmd \in DOMAIN Order[way], NEW r \in DOMAIN Order[way],
           Order[way][r] > Order[way][cmd], r \in DOMAIN DirtyBit,
           cmd \in DOMAIN DirtyBit \ {"FEATURE", "TX_ADDR"}
    PROVE  DirtyBit[r] # DirtyBit[cmd]
<1>1. CASE way = "recv"
  BY <1>1 DEF Order, DirtyBit
<1>2. CASE way = "send"
  BY <1>2 DEF Order, DirtyBit
<1> QED
  BY <1>1, <1>2

LEMMA PreparedFacts ==
    ASSUME NEW ctx \in NrfCtxs, NEW cmd \in StepNames, NEW next \in StepNames,
           NEW new, new = Stepped(ctx, cmd, next)
    PROVE  /\ new \in NrfCtxs /\ new.state = next
           /\ new.way = ctx.way /\ new.addr = ctx.addr /\ new.size = ctx.size
           /\ new.payload = ctx.payload /\ new.dyn = ctx.dyn /\ new.save = ctx.save
           /\ new.rate = ctx.rate /\ new.channel = ctx.channel
           /\ new.ard = IF Slows(ctx, cmd) THEN 1 ELSE ctx.ard
           /\ new.dirty = Remains(ctx, cmd)
           /\ StepValue(Prepared(ctx, cmd), cmd) = StepValue(new, cmd)
<1> DEFINE dirty == Remains(ctx, cmd)
           ard == IF Slows(ctx, cmd) THEN 1 ELSE ctx.ard
<1>1. dirty \in SUBSET DirtyBits /\ ard \in Nat
  <2>1. ctx.dirty \in SUBSET DirtyBits /\ ctx.ard \in Nat
    BY DEF NrfCtxs
  <2> QED
    BY <2>1 DEF DirtyBits, Remains
<1>2. Prepared(ctx, cmd) = [ctx EXCEPT !.ard = ard, !.dirty = dirty]
  BY DEF Prepared, NrfCtxs, Slows, Cleans, Remains
<1> HIDE DEF dirty, ard
<1>3. /\ new \in NrfCtxs /\ new.state = next
      /\ new.way = ctx.way /\ new.addr = ctx.addr /\ new.size = ctx.size
      /\ new.payload = ctx.payload /\ new.dyn = ctx.dyn /\ new.save = ctx.save
      /\ new.rate = ctx.rate /\ new.channel = ctx.channel
      /\ new.ard = ard /\ new.dirty = dirty
  BY <1>1, <1>2 DEF NrfCtxs, Stepped
<1>4. /\ Prepared(ctx, cmd).way = ctx.way /\ Prepared(ctx, cmd).addr = ctx.addr
      /\ Prepared(ctx, cmd).size = ctx.size /\ Prepared(ctx, cmd).payload = ctx.payload
      /\ Prepared(ctx, cmd).dyn = ctx.dyn /\ Prepared(ctx, cmd).rate = ctx.rate
      /\ Prepared(ctx, cmd).channel = ctx.channel /\ Prepared(ctx, cmd).ard = ard
  BY <1>2 DEF NrfCtxs
<1>5. StepValue(Prepared(ctx, cmd), cmd) = StepValue(new, cmd)
  BY <1>3, <1>4 DEF StepValue, Config, Pipes
<1> QED
  BY <1>3, <1>5 DEF dirty, ard

\* One step more: once its command is through, all is right up to the next.
LEMMA StepWritten ==
    ASSUME NEW ctx \in NrfCtxs, NEW h, NEW reg, NEW cmd \in DOMAIN Order[ctx.way],
           NEW next \in DOMAIN Order[ctx.way], NEW new,
           Registers(reg), Asking(ctx), ctx.state \in DOMAIN Order[ctx.way],
           RightUpTo(ctx, h, reg, Order[ctx.way][ctx.state]),
           cmd # "CE", Needed(ctx, cmd),
           Order[ctx.way][cmd] >= Order[ctx.way][ctx.state],
           \A r \in DOMAIN Order[ctx.way] :
              Order[ctx.way][r] \in Order[ctx.way][ctx.state]..Order[ctx.way][cmd] - 1
                 => ~Needed(ctx, r),
           Order[ctx.way][next] = Order[ctx.way][cmd] + 1,
           new = Stepped(ctx, cmd, next)
    PROVE  /\ new \in NrfCtxs /\ new.way = ctx.way /\ new.state = next /\ Asking(new)
           /\ new.payload = ctx.payload /\ new.size = ctx.size
           /\ StepValue(Prepared(ctx, cmd), cmd) = StepValue(new, cmd)
           /\ RightUpTo(new, h, Written(new, reg, cmd), Order[new.way][next])
           /\ Slow(ctx, h) => Slow(new, h)
<1> DEFINE P == Order[ctx.way]
           k == P[ctx.state]
<1>1. ctx.way \in {"recv", "send"}
  BY DEF Asking
<1>2. /\ DOMAIN P \subseteq StepNames /\ \A r \in DOMAIN P : P[r] \in Nat \ {0}
      /\ \A r \in DOMAIN P \ {"RF_SETUP"} : P[r] > 1
      /\ \A r, s \in DOMAIN P : P[r] = P[s] => r = s
      /\ "RF_SETUP" \in DOMAIN P /\ P["RF_SETUP"] = 1
  BY <1>1, OrderTypes
<1>3. /\ new \in NrfCtxs /\ new.state = next
      /\ new.way = ctx.way /\ new.addr = ctx.addr /\ new.size = ctx.size
      /\ new.payload = ctx.payload /\ new.dyn = ctx.dyn /\ new.save = ctx.save
      /\ new.rate = ctx.rate /\ new.channel = ctx.channel
      /\ new.ard = IF Slows(ctx, cmd) THEN 1 ELSE ctx.ard
      /\ new.dirty = Remains(ctx, cmd)
      /\ StepValue(Prepared(ctx, cmd), cmd) = StepValue(new, cmd)
  <2>1. cmd \in StepNames /\ next \in StepNames
    BY <1>2
  <2> QED
    BY <2>1, PreparedFacts
<1>4. Asking(new)
  BY <1>3 DEF Asking
<1>5. ASSUME NEW r \in DOMAIN P
      PROVE  \/ StepValue(new, r) = StepValue(ctx, r)
             \/ r = "SETUP_RETR" /\ cmd = "RF_SETUP" /\ "retr" \in new.dirty
  <2>1. CASE r = "SETUP_RETR" /\ Slows(ctx, cmd)
    BY <1>3, <2>1 DEF DirtyBit, Slows, Cleans, Remains
  <2>2. CASE r # "SETUP_RETR"
    BY <1>3, <2>2 DEF StepValue, Config, Pipes
  <2>3. CASE r = "SETUP_RETR" /\ ~Slows(ctx, cmd)
    BY <1>3, <2>3 DEF StepValue
  <2> QED
    BY <2>1, <2>2, <2>3
<1>6. ASSUME NEW r \in DOMAIN P, P[r] < P[cmd], ~Exempt(h, r)
      PROVE  reg[r] = StepValue(ctx, r)
  <2>1. \/ reg[r] = StepValue(ctx, r)
        \/ P[r] >= k /\ (r = "CONFIG" \/ DirtyBit[r] \in ctx.dirty)
    BY <1>6 DEF RightUpTo
  <2>2. P[r] >= k => ~Needed(ctx, r)
    BY <1>2, <1>6
  <2>3. r = "CONFIG" \/ DirtyBit[r] \in ctx.dirty => Needed(ctx, r)
    BY DEF Needed, DirtyBit
  <2> QED
    BY <2>1, <2>2, <2>3
<1>7. ASSUME NEW r \in DOMAIN P, P[r] > P[cmd], r \in DOMAIN DirtyBit,
             DirtyBit[r] \in ctx.dirty
      PROVE  DirtyBit[r] \in new.dirty
  <2>1. DirtyBit[r] \notin Cleans(cmd)
    BY <1>1, <1>7, BitKept DEF Cleans
  <2> QED
    BY <1>3, <1>7, <2>1 DEF Remains
<1>8. ASSUME NEW r \in DOMAIN P, ~Exempt(h, r)
      PROVE  \/ Written(new, reg, cmd)[r] = StepValue(new, r)
             \/ P[r] >= P[next] /\ (r = "CONFIG" \/ DirtyBit[r] \in new.dirty)
  <2>1. ~Exempt(h, r) /\ r \in RegNames
    BY <1>2, <1>3, <1>8 DEF Exempt, RegNames, StepNames
  <2>2. CASE r = cmd
    BY <2>1, <2>2 DEF Written, Registers
  <2>3. CASE r # cmd
    <3>1. Written(new, reg, cmd)[r] = reg[r]
      BY <2>1, <2>3 DEF Written, Registers
    <3>2. CASE P[r] < P[cmd]
      <4>1. reg[r] = StepValue(ctx, r)
        BY <1>6, <2>1, <3>2
      <4>2. cmd # "RF_SETUP"
        BY <1>2, <3>2
      <4> QED
        BY <1>5, <3>1, <4>1, <4>2
    <3>3. CASE P[r] > P[cmd]
      <4>1. P[r] >= P[next]
        BY <1>2, <3>3
      <4>2. \/ reg[r] = StepValue(ctx, r)
            \/ r = "CONFIG" \/ DirtyBit[r] \in ctx.dirty
        BY <2>1 DEF RightUpTo
      <4>3. r # "CONFIG" => r \in DOMAIN DirtyBit
        BY <1>2, <2>1 DEF Exempt, StepNames, DirtyBit
      <4>4. CASE reg[r] = StepValue(ctx, r)
        BY <1>5, <3>1, <4>1, <4>4 DEF DirtyBit
      <4>5. CASE r # "CONFIG" /\ DirtyBit[r] \in ctx.dirty
        BY <1>7, <3>3, <4>1, <4>3, <4>5
      <4> QED
        BY <4>1, <4>2, <4>4, <4>5
    <3> QED
      BY <1>2, <2>3, <3>2, <3>3
  <2> QED
    BY <2>2, <2>3
<1>9. ASSUME NEW r \in DOMAIN P, r \in DOMAIN DirtyBit \ {"FEATURE", "TX_ADDR"},
             P[r] < P[next]
      PROVE  DirtyBit[r] \notin new.dirty
  <2>1. CASE r = cmd
    BY <1>3, <1>9, <2>1 DEF Cleans, Remains
  <2>2. CASE r # cmd
    <3>1. P[r] < P[cmd]
      BY <1>2, <1>9, <2>2
    <3>2. cmd # "RF_SETUP"
      BY <1>2, <3>1
    <3>3. DirtyBit[r] \notin ctx.dirty
      <4>1. CASE P[r] < k
        BY <1>9, <4>1 DEF RightUpTo
      <4>2. CASE P[r] >= k
        <5>1. ~Needed(ctx, r)
          BY <1>2, <3>1, <4>2
        <5> QED
          BY <1>9, <5>1 DEF Needed
      <4> QED
        BY <1>2, <4>1, <4>2
    <3> QED
      BY <1>3, <3>2, <3>3 DEF Slows, Remains
  <2> QED
    BY <2>1, <2>2
<1>10. new.dyn \/ new.way = "send" => "size" \notin new.dirty
  <2>1. ctx.dyn \/ ctx.way = "send" => "size" \notin ctx.dirty
    BY DEF RightUpTo
  <2> QED
    BY <1>3, <2>1 DEF Remains
<1>11. RightUpTo(new, h, Written(new, reg, cmd), Order[new.way][next])
  BY <1>3, <1>8, <1>9, <1>10 DEF RightUpTo
<1>12. ASSUME Slow(ctx, h) PROVE Slow(new, h)
  <2>1. ctx.ard \in Nat /\ new.ard \in Nat
    BY <1>3 DEF NrfCtxs
  <2>2. CASE cmd = "RF_SETUP"
    BY <1>3, <2>1, <2>2 DEF Slow, Slows, Remains
  <2>3. CASE cmd # "RF_SETUP"
    <3>1. "rate" \notin Cleans(cmd)
      BY <2>3 DEF DirtyBit, Cleans
    <3> QED
      BY <1>3, <1>12, <2>3, <3>1 DEF Slow, Slows, Remains
  <2> QED
    BY <2>2, <2>3
<1> QED
  BY <1>3, <1>4, <1>11, <1>12

\* When no step is left, all registers are right and no bit is dirty.
LEMMA AllWritten ==
    ASSUME NEW ctx \in NrfCtxs, NEW h, NEW reg, Asking(ctx), NEW k \in Nat,
           RightUpTo(ctx, h, reg, k),
           \A r \in DOMAIN Order[ctx.way] :
              r # "CE" /\ Order[ctx.way][r] >= k => ~Needed(ctx, r)
    PROVE  /\ ctx.dirty = {}
           /\ \A r \in DOMAIN Order[ctx.way] :
                 Exempt(h, r) \/ reg[r] = StepValue(ctx, r)
<1> DEFINE P == Order[ctx.way]
<1>1. ctx.way \in {"recv", "send"}
  BY DEF Asking
<1>2. \A r \in DOMAIN P : P[r] \in Nat
  BY <1>1, OrderTypes
<1>3. ASSUME NEW r \in DOMAIN P, r \in DOMAIN DirtyBit \ {"FEATURE", "TX_ADDR"}
      PROVE  DirtyBit[r] \notin ctx.dirty
  <2>1. CASE P[r] < k
    BY <1>3, <2>1 DEF RightUpTo
  <2>2. CASE P[r] >= k
    <3>1. ~Needed(ctx, r)
      BY <1>3, <2>2 DEF DirtyBit
    <3> QED
      BY <1>3, <3>1 DEF Needed
  <2> QED
    BY <1>2, <2>1, <2>2
<1>4. {"rate", "channel", "retr", "dyn", "addr"} \cap ctx.dirty = {}
  <2>1. CASE ctx.way = "recv"
    <3>1. {"RF_SETUP", "RF_CH", "SETUP_RETR", "DYNPD", "RX_ADDR_P1"} \subseteq DOMAIN P
      BY <2>1 DEF Order
    <3> QED
      BY <1>3, <3>1 DEF DirtyBit
  <2>2. CASE ctx.way = "send"
    <3>1. {"RF_SETUP", "RF_CH", "SETUP_RETR", "DYNPD", "RX_ADDR_P0"} \subseteq DOMAIN P
      BY <2>2 DEF Order
    <3> QED
      BY <1>3, <3>1 DEF DirtyBit
  <2> QED
    BY <1>1, <2>1, <2>2
<1>5. "size" \notin ctx.dirty
  <2>1. CASE ctx.way = "recv"
    <3>1. "RX_PW" \in DOMAIN P
      BY <2>1 DEF Order
    <3> QED
      BY <1>3, <3>1 DEF DirtyBit
  <2>2. CASE ctx.way = "send"
    BY <2>2 DEF RightUpTo
  <2> QED
    BY <1>1, <2>1, <2>2
<1>6. ctx.dirty = {}
  BY <1>4, <1>5 DEF NrfCtxs, DirtyBits
<1>7. ASSUME NEW r \in DOMAIN P, ~Exempt(h, r) PROVE reg[r] = StepValue(ctx, r)
  <2>1. \/ reg[r] = StepValue(ctx, r)
        \/ P[r] >= k /\ (r = "CONFIG" \/ DirtyBit[r] \in ctx.dirty)
    BY <1>7 DEF RightUpTo
  <2>2. r = "CONFIG" => Needed(ctx, r)
    BY DEF Needed, DirtyBit
  <2>3. r # "CE"
    BY <1>7 DEF Exempt
  <2> QED
    BY <1>6, <2>1, <2>2, <2>3
<1> QED
  BY <1>6, <1>7


-----------------------------------------------------------------------------
(* Requests                                                                *)

LEMMA FreeIdle == NrfInd /\ Free => Idle
<1> SUFFICES ASSUME NrfInd, Free PROVE Idle
  OBVIOUS
<1>1. nrf.state = "USER_DATA" /\ \A i \in 1..Len(bus) : bus[i].cb # "chain"
  BY DEF Free
<1>2. ~SettingUp
  <2>1. SettingUp => nrf.state \in StepNames
    BY OrderTypes DEF SettingUp, Asking
  <2> QED
    BY <1>1, <2>1 DEF StepNames
<1>3. ~Waiting /\ ~Fetching
  BY <1>1 DEF Waiting, Fetching
<1>4. ASSUME NEW cmd, NEW value, NEW done, Chained(bus, cmd, value, done) PROVE FALSE
  <2>1. CASE bus = <<Of(cmd, value, "chain", done)>>
    <3>1. Len(bus) = 1 /\ bus[1].cb = "chain"
      BY <2>1 DEF Of
    <3> QED
      BY <1>1, <3>1
  <2>2. CASE bus = <<Of(cmd, value, "chain", done), Clear(FALSE)>>
    <3>1. Len(bus) = 2 /\ bus[1].cb = "chain"
      BY <2>2 DEF Of
    <3> QED
      BY <1>1, <3>1
  <2>3. ASSUME NEW d, bus = <<Clear(d), Of(cmd, value, "chain", FALSE)>> PROVE FALSE
    <3>1. Len(bus) = 2 /\ bus[2].cb = "chain"
      BY <2>3 DEF Of
    <3> QED
      BY <1>1, <3>1
  <2> QED
    BY <1>4, <2>1, <2>2, <2>3 DEF Chained
<1>5. ~Finishing
  BY <1>4 DEF Finishing
<1> QED
  BY <1>2, <1>3, <1>5 DEF NrfInd

\* The requests that nrf_receive and nrf_send make out of the context at rest.
RecvAsked(addr, len) ==
    Asked("recv", addr, len, "data",
          (nrf.dirty \ {"addr", "size"})
          \cup (IF ~nrf.dyn /\ nrf.size # len THEN {"size"} ELSE {}))
SendAsked(addr, data, len) == Asked("send", addr, len, data, nrf.dirty \ {"addr"})

\* What of held outlives a request.
LEMMA HeldFacts ==
    ASSUME NrfTypeOK, NEW way \in {"recv", "send"}, NEW addr, NEW size,
           NEW written \in SUBSET {"width"}, NEW h, h = Held(way, addr, size, written)
    PROVE  /\ h \in SUBSET {"recv", "send", "width", "delay"}
           /\ "delay" \in h => "delay" \in held
           /\ nrf.addr = addr => /\ "recv" \in h => "recv" \in held
                                 /\ "send" \in h => "send" \in held
           /\ nrf.addr # addr => /\ "recv" \in h => way = "recv"
                                 /\ "send" \in h => way = "send"
           /\ nrf.size = size => ("width" \in h => "width" \in held)
           /\ nrf.size # size => ("width" \in h => "width" \in written)
<1>1. held \in SUBSET {"recv", "send", "width", "delay"}
  BY DEF NrfTypeOK
<1> QED
  BY <1>1 DEF Held

LEMMA AskedRecv ==
    ASSUME NrfInd, Idle, NEW addr \in NrfRxAddrs, NEW len \in NrfRxSizes,
           NEW ctx, ctx = RecvAsked(addr, len),
           NEW h, h = Held("recv", addr, len, IF nrf.dyn THEN {} ELSE {"width"})
    PROVE  /\ ctx \in NrfCtxs /\ ctx.state = "RF_SETUP" /\ Asking(ctx) /\ ctx.way = "recv"
           /\ h \in SUBSET {"recv", "send", "width", "delay"}
           /\ RightUpTo(ctx, h, radio.reg, 1) /\ Kept(ctx, h, radio.reg) /\ Slow(ctx, h)
           /\ nrf.way # "recv" => "dyn" \in ctx.dirty
<1> DEFINE dirty == (nrf.dirty \ {"addr", "size"})
                       \cup (IF ~nrf.dyn /\ nrf.size # len THEN {"size"} ELSE {})
           all == dirty \cup (IF nrf.way # "recv" THEN {"dyn"} ELSE {})
                        \cup (IF nrf.addr # addr THEN {"addr"} ELSE {})
<1>1. nrf \in NrfCtxs /\ Known(nrf, held, radio.reg) /\ Slow(nrf, held)
  BY DEF NrfInd, NrfTypeOK, Idle
<1> DEFINE written == IF nrf.dyn THEN {} ELSE {"width"}
<1>h. /\ h \in SUBSET {"recv", "send", "width", "delay"}
      /\ "delay" \in h => "delay" \in held
      /\ nrf.addr = addr => /\ "recv" \in h => "recv" \in held
                            /\ "send" \in h => "send" \in held
      /\ nrf.addr # addr => "send" \notin h
      /\ nrf.size = len => ("width" \in h => "width" \in held)
      /\ nrf.size # len => ("width" \in h => "width" \in written)
  <2>1. NrfTypeOK /\ written \in SUBSET {"width"}
    BY DEF NrfInd
  <2>2. h = Held("recv", addr, len, written)
    OBVIOUS
  <2> HIDE DEF written
  <2> QED
    BY <2>1, <2>2, HeldFacts
<1>2. len \in Nat /\ all \in SUBSET DirtyBits
  <2>1. nrf.dirty \in SUBSET DirtyBits
    BY <1>1 DEF NrfCtxs
  <2> QED
    BY <2>1, NrfAssumption DEF DirtyBits
<1>3. ctx = [nrf EXCEPT !.way = "recv", !.state = "RF_SETUP", !.addr = addr, !.size = len,
                        !.payload = "data", !.dirty = all]
  BY DEF Asked, RecvAsked
<1>4. {"rate", "channel", "retr", "dyn"} \cap nrf.dirty \subseteq all
  OBVIOUS
<1>5. "size" \in all <=> ~nrf.dyn /\ nrf.size # len
  OBVIOUS
<1>6. /\ nrf.addr # addr => "addr" \in all
      /\ nrf.way # "recv" => "dyn" \in all
  OBVIOUS
<1> HIDE DEF all
<1>7. /\ ctx \in NrfCtxs /\ ctx.state = "RF_SETUP"
      /\ ctx.way = "recv" /\ ctx.addr = addr /\ ctx.size = len
      /\ ctx.payload = "data" /\ ctx.dyn = nrf.dyn
      /\ ctx.rate = nrf.rate /\ ctx.channel = nrf.channel
      /\ ctx.ard = nrf.ard /\ ctx.dirty = all
  <2>1. "data" \in Payloads /\ "RF_SETUP" \in StepNames
    BY DEF StepNames, Payloads
  <2> DEFINE old == [nrf EXCEPT !.way = "recv", !.state = "RF_SETUP", !.addr = addr]
  <2>2. /\ old \in NrfCtxs /\ old.state = "RF_SETUP" /\ old.way = "recv"
        /\ old.addr = addr /\ old.dyn = nrf.dyn /\ old.rate = nrf.rate
        /\ old.channel = nrf.channel /\ old.ard = nrf.ard
    BY <1>1, <2>1 DEF NrfCtxs
  <2>3. ctx = [old EXCEPT !.size = len, !.payload = "data", !.dirty = all]
    BY <1>1, <1>3 DEF NrfCtxs
  <2> HIDE DEF old
  <2> QED
    BY <1>2, <2>1, <2>2, <2>3 DEF NrfCtxs
<1>8. Asking(ctx)
  BY <1>7, NrfAssumption DEF Asking
<1>9. ASSUME NEW r \in DOMAIN Order["recv"], ~Exempt(h, r)
      PROVE  radio.reg[r] = StepValue(ctx, r) \/ r = "CONFIG" \/ DirtyBit[r] \in all
  <2>1. CASE r \in {"RF_SETUP", "RF_CH", "FEATURE", "SETUP_RETR"}
    <3>1. DirtyBit[r] \in nrf.dirty \/ radio.reg[r] = StepValue(nrf, r)
      BY <1>1, <2>1 DEF Known, Common
    <3>2. StepValue(nrf, r) = StepValue(ctx, r)
      BY <1>7, <2>1 DEF StepValue
    <3>3. DirtyBit[r] \in {"rate", "channel", "retr", "dyn"}
      BY <2>1 DEF DirtyBit
    <3> QED
      BY <1>4, <3>1, <3>2, <3>3
  <2>2. CASE r = "DYNPD"
    <3>1. DirtyBit[r] = "dyn" /\ StepValue(ctx, r) = Pipes(ctx) /\ StepValue(nrf, r) = Pipes(nrf)
      BY <2>2 DEF DirtyBit, StepValue
    <3>2. DirtyBit[r] \in nrf.dirty \/ radio.reg[r] = StepValue(nrf, r)
      BY <1>1, <2>2 DEF Known, Common
    <3>3. nrf.way = "recv" => Pipes(nrf) = Pipes(ctx)
      BY <1>7 DEF Pipes
    <3> QED
      BY <1>4, <1>6, <3>1, <3>2, <3>3
  <2>3. CASE r = "RX_PW"
    <3>1. DirtyBit[r] = "size" /\ StepValue(ctx, r) = len
      BY <1>7, <2>3 DEF DirtyBit, StepValue
    <3>2. "width" \in h
      BY <1>9, <2>3 DEF Exempt
    <3>3. nrf.size = len => radio.reg[r] = len
      BY <1>1, <1>h, <2>3, <3>2 DEF Known, HoldsWidth
    <3>4. nrf.size # len => ~nrf.dyn
      BY <1>h, <3>2
    <3> QED
      BY <1>5, <3>1, <3>3, <3>4
  <2>4. CASE r = "RX_ADDR_P1"
    <3>1. DirtyBit[r] = "addr" /\ StepValue(ctx, r) = addr
      BY <1>7, <2>4 DEF DirtyBit, StepValue
    <3>2. nrf.addr = addr => radio.reg[r] = addr
      BY <1>1, <1>h, <1>9, <2>4 DEF Exempt, Known, HoldsRecv
    <3> QED
      BY <1>6, <3>1, <3>2
  <2> QED
    BY <1>9, <2>1, <2>2, <2>3, <2>4 DEF Order, Exempt
<1>10. \A r \in DOMAIN Order["recv"] : Order["recv"][r] >= 1 /\ ~(Order["recv"][r] < 1)
  BY DEF Order
<1>11. ctx.dyn \/ ctx.way = "send" => "size" \notin ctx.dirty
  BY <1>5, <1>7
<1>12. RightUpTo(ctx, h, radio.reg, 1)
  BY <1>7, <1>9, <1>10, <1>11 DEF RightUpTo
<1>13. Slow(ctx, h)
  BY <1>1, <1>h, <1>4, <1>7 DEF Slow
<1>14. Kept(ctx, h, radio.reg)
  BY <1>1, <1>h, <1>7 DEF Kept, Known, HoldsRecv, HoldsSend, HoldsWidth
<1> QED
  BY <1>h, <1>6, <1>7, <1>8, <1>12, <1>13, <1>14

LEMMA AskedSend ==
    ASSUME NrfInd, Idle, NEW addr \in NrfTxAddrs, NEW len \in NrfTxSizes,
           NEW data \in NrfPayloads, NEW ctx,
           ctx = SendAsked(addr, data, len),
           NEW h, h = Held("send", addr, len, {})
    PROVE  /\ ctx \in NrfCtxs /\ ctx.state = "RF_SETUP" /\ Asking(ctx) /\ ctx.way = "send"
           /\ ctx.payload = data
           /\ h \in SUBSET {"recv", "send", "width", "delay"}
           /\ RightUpTo(ctx, h, radio.reg, 1) /\ Kept(ctx, h, radio.reg) /\ Slow(ctx, h)
<1> DEFINE all == (nrf.dirty \ {"addr"}) \cup (IF nrf.way # "send" THEN {"dyn"} ELSE {})
                        \cup (IF nrf.addr # addr THEN {"addr"} ELSE {})
<1>1. nrf \in NrfCtxs /\ Known(nrf, held, radio.reg) /\ Slow(nrf, held)
  BY DEF NrfInd, NrfTypeOK, Idle
<1> DEFINE written == {}
<1>h. /\ h \in SUBSET {"recv", "send", "width", "delay"}
      /\ "delay" \in h => "delay" \in held
      /\ nrf.addr = addr => /\ "recv" \in h => "recv" \in held
                            /\ "send" \in h => "send" \in held
      /\ nrf.addr # addr => "recv" \notin h
      /\ nrf.size = len => ("width" \in h => "width" \in held)
      /\ nrf.size # len => ("width" \in h => "width" \in written)
  <2>1. NrfTypeOK /\ written \in SUBSET {"width"}
    BY DEF NrfInd
  <2>2. h = Held("send", addr, len, written)
    OBVIOUS
  <2> HIDE DEF written
  <2> QED
    BY <2>1, <2>2, HeldFacts
<1>2. len \in Nat /\ all \in SUBSET DirtyBits
  <2>1. nrf.dirty \in SUBSET DirtyBits
    BY <1>1 DEF NrfCtxs
  <2> QED
    BY <2>1, NrfAssumption DEF DirtyBits
<1>3. ctx = [nrf EXCEPT !.way = "send", !.state = "RF_SETUP", !.addr = addr, !.size = len,
                        !.payload = data, !.dirty = all]
  BY DEF Asked, SendAsked
<1>4. {"rate", "channel", "retr", "dyn"} \cap nrf.dirty \subseteq all
  OBVIOUS
<1>5. "size" \notin all
  BY <1>1 DEF Known
<1>6. /\ nrf.addr # addr => "addr" \in all
      /\ nrf.way # "send" => "dyn" \in all
  OBVIOUS
<1> HIDE DEF all
<1>7. /\ ctx \in NrfCtxs /\ ctx.state = "RF_SETUP"
      /\ ctx.way = "send" /\ ctx.addr = addr /\ ctx.size = len
      /\ ctx.payload = data /\ ctx.dyn = nrf.dyn
      /\ ctx.rate = nrf.rate /\ ctx.channel = nrf.channel
      /\ ctx.ard = nrf.ard /\ ctx.dirty = all
  <2>1. data \in Payloads /\ "RF_SETUP" \in StepNames
    BY DEF StepNames, Payloads
  <2> DEFINE old == [nrf EXCEPT !.way = "send", !.state = "RF_SETUP", !.addr = addr]
  <2>2. /\ old \in NrfCtxs /\ old.state = "RF_SETUP" /\ old.way = "send"
        /\ old.addr = addr /\ old.dyn = nrf.dyn /\ old.rate = nrf.rate
        /\ old.channel = nrf.channel /\ old.ard = nrf.ard
    BY <1>1, <2>1 DEF NrfCtxs
  <2>3. ctx = [old EXCEPT !.size = len, !.payload = data, !.dirty = all]
    BY <1>1, <1>3 DEF NrfCtxs
  <2> HIDE DEF old
  <2> QED
    BY <1>2, <2>1, <2>2, <2>3 DEF NrfCtxs
<1>8. Asking(ctx)
  BY <1>7 DEF Asking
<1>9. ASSUME NEW r \in DOMAIN Order["send"], ~Exempt(h, r)
      PROVE  radio.reg[r] = StepValue(ctx, r) \/ r = "CONFIG" \/ DirtyBit[r] \in all
  <2>1. CASE r \in {"RF_SETUP", "RF_CH", "FEATURE", "SETUP_RETR"}
    <3>1. DirtyBit[r] \in nrf.dirty \/ radio.reg[r] = StepValue(nrf, r)
      BY <1>1, <2>1 DEF Known, Common
    <3>2. StepValue(nrf, r) = StepValue(ctx, r)
      BY <1>7, <2>1 DEF StepValue
    <3>3. DirtyBit[r] \in {"rate", "channel", "retr", "dyn"}
      BY <2>1 DEF DirtyBit
    <3> QED
      BY <1>4, <3>1, <3>2, <3>3
  <2>2. CASE r = "DYNPD"
    <3>1. DirtyBit[r] = "dyn" /\ StepValue(ctx, r) = Pipes(ctx) /\ StepValue(nrf, r) = Pipes(nrf)
      BY <2>2 DEF DirtyBit, StepValue
    <3>2. DirtyBit[r] \in nrf.dirty \/ radio.reg[r] = StepValue(nrf, r)
      BY <1>1, <2>2 DEF Known, Common
    <3>3. nrf.way = "send" => Pipes(nrf) = Pipes(ctx)
      BY <1>7 DEF Pipes
    <3> QED
      BY <1>4, <1>6, <3>1, <3>2, <3>3
  <2>3. CASE r \in {"TX_ADDR", "RX_ADDR_P0"}
    <3>1. CASE r = "TX_ADDR"
      BY <1>1, <1>h, <1>6, <1>7, <1>9, <3>1 DEF DirtyBit, StepValue, Exempt, Known, HoldsSend
    <3>2. CASE r = "RX_ADDR_P0"
      BY <1>1, <1>h, <1>6, <1>7, <1>9, <3>2 DEF DirtyBit, StepValue, Exempt, Known, HoldsSend
    <3> QED
      BY <2>3, <3>1, <3>2
  <2> QED
    BY <1>9, <2>1, <2>2, <2>3 DEF Order, Exempt
<1>10. \A r \in DOMAIN Order["send"] : Order["send"][r] >= 1 /\ ~(Order["send"][r] < 1)
  BY DEF Order
<1>11. ctx.dyn \/ ctx.way = "send" => "size" \notin ctx.dirty
  BY <1>5, <1>7
<1>12. RightUpTo(ctx, h, radio.reg, 1)
  BY <1>7, <1>9, <1>10, <1>11 DEF RightUpTo
<1>13. Slow(ctx, h)
  BY <1>1, <1>h, <1>4, <1>7 DEF Slow
<1>14. Kept(ctx, h, radio.reg)
  BY <1>1, <1>h, <1>7 DEF Kept, Known, HoldsRecv, HoldsSend, HoldsWidth
<1> QED
  BY <1>h, <1>7, <1>8, <1>12, <1>13, <1>14

\* The chain goes on with a step that is to be written.  A chain that the
\* handler of the status started has another one to write after that.
LEMMA ChainWrites ==
    ASSUME NrfTypeOK, Off, radio.tx = <<>>, UNCHANGED <<seen, radio>>,
           NEW ctx \in NrfCtxs, Asking(ctx), ctx.state \in DOMAIN Order[ctx.way],
           NEW h \in SUBSET {"recv", "send", "width", "delay"}, held' = h,
           Slow(ctx, h), Kept(ctx, h, radio.reg),
           RightUpTo(ctx, h, radio.reg, Order[ctx.way][ctx.state]),
           ctx.way = "send" => ctx.payload \in NrfPayloads,
           MoreFrom(ctx, Order[ctx.way][ctx.state]),
           NEW queue, queue = <<>> \/ \E d \in BOOLEAN : queue = <<Clear(d)>>,
           radio.status \subseteq seen,
           radio.status = {} \/ nrfPc = "status" \/ queue = <<Clear(FALSE)>>,
           nrfPc = "status" => /\ queue = <<>> /\ ctx.state = "RF_SETUP"
                               /\ ctx.way = "recv" => "dyn" \in ctx.dirty,
           Chain(ctx, queue, <<>>)
    PROVE  NrfInd'
<1> DEFINE P == Order[ctx.way]
           k == P[ctx.state]
<1>1. ctx.way \in {"recv", "send"}
  BY DEF Asking
<1>2. /\ DOMAIN P \subseteq StepNames /\ \A r \in DOMAIN P : P[r] \in Nat \ {0}
      /\ {"RF_SETUP", "CONFIG", "DYNPD", "CE"} \subseteq DOMAIN P
      /\ P["RF_SETUP"] = 1
  BY <1>1, OrderTypes
<1>3. PICK cmd \in DOMAIN P :
         /\ P[cmd] >= k /\ Needed(ctx, cmd)
         /\ \A r \in DOMAIN P : P[r] \in k..P[cmd] - 1 => ~Needed(ctx, r)
         /\ IF cmd = "CE"
            THEN nrf' = LetLoose(ctx) /\ bus' = queue \o <<>>
            ELSE \E next \in DOMAIN P :
                  /\ P[next] = P[cmd] + 1
                  /\ nrf' = Stepped(ctx, cmd, next)
                  /\ bus' = queue \o <<Transfer(cmd, StepValue(Prepared(ctx, cmd), cmd),
                                                "chain")>> \o <<>>
         /\ ce' = (ce \/ cmd = "CE") /\ nrfPc' = nrfPc
  <2>1. PICK cmd \in DOMAIN P : SkipsTo(ctx, queue, <<>>, cmd)
    BY <1>1, ChainFacts
  <2> QED
    BY <2>1 DEF SkipsTo
<1>4. ASSUME NEW r \in DOMAIN P, P[r] >= k, Needed(ctx, r) PROVE P[cmd] <= P[r]
  BY <1>2, <1>3, <1>4
<1>5. cmd # "CE"
  <2>1. PICK r \in DOMAIN P : r # "CE" /\ P[r] >= k /\ Needed(ctx, r)
    BY DEF MoreFrom
  <2>2. P[r] < P["CE"]
    <3>1. CASE ctx.way = "recv"
      BY <2>1, <3>1 DEF Order
    <3>2. CASE ctx.way = "send"
      BY <2>1, <3>2 DEF Order
    <3> QED
      BY <1>1, <3>1, <3>2
  <2> QED
    BY <1>2, <1>4, <2>1, <2>2
<1>6. PICK next \in DOMAIN P :
         /\ P[next] = P[cmd] + 1
         /\ nrf' = Stepped(ctx, cmd, next)
         /\ bus' = queue \o <<Transfer(cmd, StepValue(Prepared(ctx, cmd), cmd), "chain")>>
                         \o <<>>
  BY <1>3, <1>5
<1>7. /\ nrf' \in NrfCtxs /\ (nrf').way = ctx.way /\ (nrf').state = next /\ Asking(nrf')
      /\ (nrf').payload = ctx.payload /\ (nrf').size = ctx.size
      /\ StepValue(Prepared(ctx, cmd), cmd) = StepValue(nrf', cmd)
      /\ RightUpTo(nrf', h, Written(nrf', radio.reg, cmd), Order[(nrf').way][next])
      /\ Slow(nrf', h) /\ Kept(nrf', h, radio.reg)
  <2>1. Registers(radio.reg)
    BY DEF NrfTypeOK, RadioTypeOK
  <2> DEFINE new == nrf'
  <2>2. new = Stepped(ctx, cmd, next)
    BY <1>6
  <2>3. RightUpTo(ctx, h, radio.reg, Order[ctx.way][ctx.state]) /\ Asking(ctx) /\ Slow(ctx, h)
    OBVIOUS
  <2> HIDE DEF new
  <2>4. /\ new \in NrfCtxs /\ new.way = ctx.way /\ new.state = next /\ Asking(new)
        /\ new.payload = ctx.payload /\ new.size = ctx.size
        /\ StepValue(Prepared(ctx, cmd), cmd) = StepValue(new, cmd)
        /\ RightUpTo(new, h, Written(new, radio.reg, cmd), Order[new.way][next])
        /\ Slow(new, h)
    <3>1. /\ P[cmd] >= k /\ Needed(ctx, cmd)
          /\ \A r \in DOMAIN P : P[r] \in k..P[cmd] - 1 => ~Needed(ctx, r)
      BY <1>3
    <3>2. P[next] = P[cmd] + 1
      BY <1>6
    <3> QED
      BY <1>5, <2>1, <2>2, <2>3, <3>1, <3>2, StepWritten
  <2>5. Kept(new, h, radio.reg)
    <3>1. cmd \in StepNames /\ next \in StepNames
      BY <1>2
    <3>2. new.way = ctx.way /\ new.addr = ctx.addr /\ new.size = ctx.size
      BY <2>2, <3>1, PreparedFacts
    <3> QED
      BY <3>2 DEF Kept, HoldsRecv, HoldsSend, HoldsWidth
  <2> QED
    BY <2>4, <2>5 DEF new
<1> DEFINE t == Of(cmd, StepValue(nrf', cmd), "chain", FALSE)
<1>8. t = Transfer(cmd, StepValue(Prepared(ctx, cmd), cmd), "chain")
  BY <1>7 DEF Of, Transfer
<1>9. CASE queue = <<>>
  <2>1. bus' = <<t>>
    <3> HIDE DEF t
    <3> QED
      BY <1>6, <1>8, <1>9
  <2>2. Chained(bus, cmd, StepValue(nrf, cmd), FALSE)'
    BY <2>1 DEF Chained
  <2>3. Answered'
    BY <1>3, <1>9 DEF Answered, ClearComes, Clear, Of
  <2>4. Len(bus') = 1
    BY <2>1
  <2>5. ASSUME ClearBehind' PROVE MoreFrom(nrf', P[next])
    <3>1. nrfPc = "status"
      BY <1>3, <2>4, <2>5 DEF ClearBehind
    <3>2. k = 1
      BY <1>2, <3>1
    <3>3. P[cmd] <= P["CONFIG"]
      BY <1>2, <1>4, <3>2 DEF Needed, DirtyBit
    <3>4. CASE ctx.way = "send"
      <4>1. "TX_PAYLOAD" \in DOMAIN P /\ P["TX_PAYLOAD"] >= P[next]
        BY <1>2, <1>6, <3>3, <3>4 DEF Order
      <4> QED
        BY <1>7, <4>1 DEF MoreFrom, Needed, DirtyBit
    <3>5. CASE ctx.way = "recv"
      <4>1. P["DYNPD"] >= P[next] /\ cmd # "DYNPD"
        BY <1>2, <1>6, <3>3, <3>5 DEF Order
      <4>2. "dyn" \in ctx.dirty
        BY <3>1, <3>5
      <4>3. "dyn" \in (nrf').dirty
        <5>1. (nrf').dirty = Remains(ctx, cmd)
          <6>1. cmd \in StepNames /\ next \in StepNames /\ nrf' = Stepped(ctx, cmd, next)
            BY <1>2, <1>6
          <6> QED
            BY <6>1, PreparedFacts
        <5>2. "dyn" \notin Cleans(cmd)
          BY <4>1 DEF DirtyBit, Cleans
        <5> QED
          BY <4>2, <5>1, <5>2 DEF Remains
      <4> QED
        BY <1>2, <1>7, <4>1, <4>3 DEF MoreFrom, Needed, DirtyBit
    <3> QED
      BY <1>1, <3>4, <3>5
  <2>6. SettingUp'
    <3>1. Off'
      BY <1>3, <1>5 DEF Off
    <3>2. radio'.tx = <<>>
      OBVIOUS
    <3>3. Order[(nrf').way][(nrf').state] = P[next] /\ next \in DOMAIN Order[(nrf').way]
      BY <1>7
    <3>4. RightUpTo(nrf', held', Written(nrf', radio'.reg, cmd), P[next])
      BY <1>7
    <3> QED
      BY <1>5, <1>6, <1>7, <2>2, <2>3, <2>4, <2>5, <3>1, <3>2, <3>3, <3>4 DEF SettingUp
  <2> QED
    BY <1>3, <1>7, <2>6, <1>5 DEF NrfInd, NrfTypeOK, RadioTypeOK
<1>10. ASSUME NEW d \in BOOLEAN, queue = <<Clear(d)>> PROVE NrfInd'
  <2>1. bus' = <<Clear(d), t>>
    <3> DEFINE c == Clear(d)
    <3> HIDE DEF t, c
    <3>1. queue = <<c>>
      BY <1>10 DEF c
    <3>2. bus' = queue \o <<t>> \o <<>>
      BY <1>6, <1>8
    <3>3. <<c>> \o <<t>> \o <<>> = <<c, t>>
      BY Pairs
    <3> QED
      BY <3>1, <3>2, <3>3 DEF c
  <2>2. Chained(bus, cmd, StepValue(nrf, cmd), FALSE)'
    BY <2>1 DEF Chained
  <2>3. Len(bus') = 2 /\ bus'[1] = Clear(d) /\ bus'[2] = t
    BY <2>1
  <2>4. nrfPc # "status"
    BY <1>10
  <2>5. Answered'
    <3>1. radio.status = {} \/ ~d
      <4>1. queue[1] = Clear(d)
        BY <1>10
      <4>2. queue = <<Clear(FALSE)>> => queue[1].done = FALSE
        BY DEF Clear, Of
      <4> QED
        BY <2>4, <4>1, <4>2 DEF Clear, Of
    <3>2. ~d => ClearComes'
      BY <2>3 DEF ClearComes, Clear, Of
    <3> QED
      BY <3>1, <3>2 DEF Answered
  <2>6. ~ClearBehind'
    BY <1>3, <2>3, <2>4 DEF ClearBehind, Of
  <2>7. SettingUp'
    <3>1. Off'
      BY <1>3, <1>5 DEF Off
    <3>2. radio'.tx = <<>>
      OBVIOUS
    <3>3. Order[(nrf').way][(nrf').state] = P[next] /\ next \in DOMAIN Order[(nrf').way]
      BY <1>7
    <3>4. RightUpTo(nrf', held', Written(nrf', radio'.reg, cmd), P[next])
      BY <1>7
    <3> QED
      BY <1>3, <1>5, <1>6, <1>7, <2>2, <2>4, <2>5, <2>6, <3>1, <3>2, <3>3, <3>4
      DEF SettingUp
  <2> QED
    BY <1>3, <1>7, <2>7, <1>5 DEF NrfInd, NrfTypeOK, RadioTypeOK
<1> QED
  BY <1>9, <1>10

\* The chain of a request starts.
LEMMA RequestStep ==
    ASSUME NrfInd, Idle, UNCHANGED <<seen, radio>>,
           NEW ctx \in NrfCtxs, ctx.state = "RF_SETUP", Asking(ctx),
           NEW h \in SUBSET {"recv", "send", "width", "delay"}, held' = h,
           Slow(ctx, h), Kept(ctx, h, radio.reg), RightUpTo(ctx, h, radio.reg, 1),
           ctx.way = "send" => ctx.payload \in NrfPayloads,
           nrf.way # "recv" /\ ctx.way = "recv" => "dyn" \in ctx.dirty,
           Chain(ctx, bus, <<>>)
    PROVE  NrfInd'
<1>1. ctx.way \in {"recv", "send"}
  BY DEF Asking
<1>2. /\ "RF_SETUP" \in DOMAIN Order[ctx.way] /\ "CONFIG" \in DOMAIN Order[ctx.way]
      /\ Order[ctx.way]["RF_SETUP"] = 1 /\ Order[ctx.way]["CONFIG"] >= 1
  BY <1>1, OrderTypes
<1>3. MoreFrom(ctx, 1)
  BY <1>2 DEF MoreFrom, Needed, DirtyBit
<1>4. bus = <<>> \/ \E d \in BOOLEAN : bus = <<Clear(d)>>
  BY DEF Idle, NoChain
<1>5. radio.status \subseteq seen
  BY DEF Idle, Answered
<1>6. radio.status = {} \/ nrfPc = "status" \/ bus = <<Clear(FALSE)>>
  <2>1. CASE bus = <<>>
    BY <2>1 DEF Idle, Answered, ClearComes
  <2>2. ASSUME NEW d \in BOOLEAN, bus = <<Clear(d)>>, d = TRUE
        PROVE  radio.status = {} \/ nrfPc = "status"
    <3>1. Len(bus) = 1 /\ bus[1].done = TRUE
      BY <2>2 DEF Clear, Of
    <3> QED
      BY <3>1 DEF Idle, Answered, ClearComes
  <2> QED
    BY <1>4, <2>1, <2>2
<1>7. nrfPc = "status" => bus = <<>> /\ nrf.way = "send"
  BY DEF Idle
<1>8. NrfTypeOK /\ Off /\ radio.tx = <<>>
  BY DEF NrfInd, Idle
<1>9. nrfPc = "status" => /\ bus = <<>> /\ ctx.state = "RF_SETUP"
                          /\ ctx.way = "recv" => "dyn" \in ctx.dirty
  BY <1>7
<1>10. ctx.state \in DOMAIN Order[ctx.way] /\ Order[ctx.way][ctx.state] = 1
  BY <1>2
<1> QED
  BY <1>3, <1>4, <1>5, <1>6, <1>8, <1>9, <1>10, ChainWrites

LEMMA ReceiveStep ==
    ASSUME NrfInd, NEW addr \in NrfRxAddrs, NEW len \in NrfRxSizes,
           nrf_receive(addr, len)
    PROVE  NrfInd'
<1>1. Idle
  BY FreeIdle DEF nrf_receive
<1>2. Chain(RecvAsked(addr, len), bus, <<>>) /\ UNCHANGED <<seen, radio>>
  BY DEF nrf_receive, RecvAsked
<1>3. PICK c : c = RecvAsked(addr, len)
  OBVIOUS
<1>h. PICK h : h = Held("recv", addr, len, IF nrf.dyn THEN {} ELSE {"width"})
  OBVIOUS
<1>4. /\ c \in NrfCtxs /\ c.state = "RF_SETUP" /\ Asking(c) /\ c.way = "recv"
      /\ h \in SUBSET {"recv", "send", "width", "delay"}
      /\ RightUpTo(c, h, radio.reg, 1) /\ Kept(c, h, radio.reg) /\ Slow(c, h)
      /\ nrf.way # "recv" => "dyn" \in c.dirty
  BY <1>1, <1>3, <1>h, AskedRecv
<1>5. Chain(c, bus, <<>>)
  BY <1>2, <1>3
<1>6. held' = h
  BY <1>h DEF nrf_receive
<1> QED
  BY <1>1, <1>2, <1>4, <1>5, <1>6, RequestStep

LEMMA SendStep ==
    ASSUME NrfInd, NEW addr \in NrfTxAddrs, NEW data \in NrfPayloads,
           NEW len \in NrfTxSizes, nrf_send(addr, data, len)
    PROVE  NrfInd'
<1>1. Idle
  BY FreeIdle DEF nrf_send
<1>2. Chain(SendAsked(addr, data, len), bus, <<>>) /\ UNCHANGED <<seen, radio>>
  BY DEF nrf_send, SendAsked
<1>3. PICK c : c = SendAsked(addr, data, len)
  OBVIOUS
<1>h. PICK h : h = Held("send", addr, len, {})
  OBVIOUS
<1>4. /\ c \in NrfCtxs /\ c.state = "RF_SETUP" /\ Asking(c) /\ c.way = "send"
      /\ c.payload = data
      /\ h \in SUBSET {"recv", "send", "width", "delay"}
      /\ RightUpTo(c, h, radio.reg, 1) /\ Kept(c, h, radio.reg) /\ Slow(c, h)
  BY <1>1, <1>3, <1>h, AskedSend
<1>5. Chain(c, bus, <<>>)
  BY <1>2, <1>3
<1>6. held' = h
  BY <1>h DEF nrf_send
<1> QED
  BY <1>1, <1>2, <1>4, <1>5, <1>6, RequestStep

-----------------------------------------------------------------------------
(* Settings                                                                *)

\* A setting changes nothing in held but the delay.
Bounds(h) ==
    /\ h' \in SUBSET {"recv", "send", "width", "delay"}
    /\ "recv" \in h' => "recv" \in h
    /\ "send" \in h' => "send" \in h
    /\ "width" \in h' => "width" \in h

\* A setting that marks what it changes leaves the context at rest.
LEMMA SettingStep ==
    ASSUME NrfInd, Idle, UNCHANGED <<nrfPc, bus, seen, ce, radio, did>>,
           nrf' \in NrfCtxs, Slow(nrf', held'), Bounds(held),
           (nrf').way = nrf.way, (nrf').state = nrf.state, (nrf').addr = nrf.addr,
           (nrf').size = nrf.size, (nrf').payload = nrf.payload,
           nrf.dirty \subseteq (nrf').dirty, "size" \notin (nrf').dirty,
           (nrf').rate = nrf.rate \/ "rate" \in (nrf').dirty,
           (nrf').channel = nrf.channel \/ "channel" \in (nrf').dirty,
           (nrf').ard = nrf.ard \/ "retr" \in (nrf').dirty,
           (nrf').dyn = nrf.dyn \/ "dyn" \in (nrf').dirty
    PROVE  NrfInd'
<1>1. Known(nrf, held, radio.reg)
  BY DEF Idle
<1>2. ASSUME NEW r \in Common
      PROVE  DirtyBit[r] \in (nrf').dirty \/ radio.reg[r] = StepValue(nrf', r)
  <2>1. DirtyBit[r] \in nrf.dirty \/ radio.reg[r] = StepValue(nrf, r)
    BY <1>1 DEF Known
  <2>2. CASE r = "RF_SETUP"
    BY <2>1, <2>2 DEF StepValue, DirtyBit
  <2>3. CASE r = "RF_CH"
    BY <2>1, <2>3 DEF StepValue, DirtyBit
  <2>4. CASE r = "FEATURE"
    BY <2>1, <2>4 DEF StepValue, DirtyBit
  <2>5. CASE r = "SETUP_RETR"
    BY <2>1, <2>5 DEF StepValue, DirtyBit
  <2>6. CASE r = "DYNPD"
    BY <2>1, <2>6 DEF StepValue, DirtyBit, Pipes
  <2> QED
    BY <2>2, <2>3, <2>4, <2>5, <2>6 DEF Common
<1>3. Known(nrf', held', radio.reg)
  BY <1>1, <1>2 DEF Bounds, Known, HoldsRecv, HoldsSend, HoldsWidth
<1>4. Idle'
  BY <1>3 DEF Idle, NoChain, Off, Answered, ClearComes, Outcome
<1> QED
  BY <1>3, <1>4 DEF Bounds, NrfInd, NrfTypeOK, RadioTypeOK, Known, Kept

LEMMA SetStep ==
    ASSUME NrfInd,
           \/ \E ch \in NrfChannels : nrf_set_channel(ch)
           \/ \E rate \in NrfRates : nrf_set_power_datarate(rate)
           \/ \E delay \in NrfDelays : nrf_set_autoretransmit(delay)
           \/ \E on \in NrfDyn : nrf_set_dynamic_payload(on)
    PROVE  NrfInd'
<1>1. Free /\ UNCHANGED <<nrfPc, bus, seen, ce, radio, did>>
  BY DEF nrf_set_channel, nrf_set_power_datarate, nrf_set_autoretransmit,
         nrf_set_dynamic_payload, Set
<1>2. Idle /\ nrf \in NrfCtxs /\ Slow(nrf, held)
  BY <1>1, FreeIdle DEF NrfInd, NrfTypeOK
<1>h. held \in SUBSET {"recv", "send", "width", "delay"}
  BY DEF NrfInd, NrfTypeOK
<1>3. "size" \notin nrf.dirty
  BY <1>2 DEF Idle, Known
<1>4. CASE \E ch \in NrfChannels : nrf_set_channel(ch)
  <2>1. PICK ch \in NrfChannels :
           /\ nrf' = [nrf EXCEPT !.channel = ch, !.dirty = nrf.dirty \cup {"channel"}]
           /\ held' = held
    BY <1>4 DEF nrf_set_channel, Set
  <2>2. nrf.dirty \cup {"channel"} \in SUBSET DirtyBits
    BY <1>2 DEF NrfCtxs, DirtyBits
  <2>3. /\ nrf' \in NrfCtxs /\ (nrf').dirty = nrf.dirty \cup {"channel"}
        /\ (nrf').way = nrf.way /\ (nrf').state = nrf.state /\ (nrf').addr = nrf.addr
        /\ (nrf').size = nrf.size /\ (nrf').payload = nrf.payload
        /\ (nrf').rate = nrf.rate /\ (nrf').ard = nrf.ard /\ (nrf').dyn = nrf.dyn
    BY <1>2, <2>1, <2>2 DEF NrfCtxs
  <2>4. Slow(nrf', held') /\ Bounds(held)
    BY <1>2, <1>h, <2>1, <2>3 DEF Slow, Bounds
  <2> QED
    BY <1>1, <1>2, <1>3, <2>3, <2>4, SettingStep
<1>5. CASE \E rate \in NrfRates : nrf_set_power_datarate(rate)
  <2>1. PICK rate \in NrfRates :
           /\ nrf' = [nrf EXCEPT !.rate = rate, !.dirty = nrf.dirty \cup {"rate"}]
           /\ held' = held \cup {"delay"}
    BY <1>5 DEF nrf_set_power_datarate, Set
  <2>2. nrf.dirty \cup {"rate"} \in SUBSET DirtyBits
    BY <1>2 DEF NrfCtxs, DirtyBits
  <2>3. /\ nrf' \in NrfCtxs /\ (nrf').dirty = nrf.dirty \cup {"rate"}
        /\ (nrf').way = nrf.way /\ (nrf').state = nrf.state /\ (nrf').addr = nrf.addr
        /\ (nrf').size = nrf.size /\ (nrf').payload = nrf.payload
        /\ (nrf').channel = nrf.channel /\ (nrf').ard = nrf.ard /\ (nrf').dyn = nrf.dyn
    BY <1>2, <2>1, <2>2 DEF NrfCtxs
  <2>4. Slow(nrf', held') /\ Bounds(held)
    BY <1>h, <2>1, <2>3 DEF Slow, Bounds
  <2> QED
    BY <1>1, <1>2, <1>3, <2>3, <2>4, SettingStep
<1>6. CASE \E delay \in NrfDelays : nrf_set_autoretransmit(delay)
  <2>1. PICK delay \in NrfDelays :
           /\ nrf' = [nrf EXCEPT !.ard = delay, !.dirty = nrf.dirty \cup {"retr"}]
           /\ held' = IF delay = 0 /\ "rate" \notin nrf.dirty
                       THEN held \ {"delay"} ELSE held \cup {"delay"}
    BY <1>6 DEF nrf_set_autoretransmit, Set
  <2>2. nrf.dirty \cup {"retr"} \in SUBSET DirtyBits /\ delay \in Nat
    BY <1>2, NrfAssumption DEF NrfCtxs, DirtyBits
  <2>3. /\ nrf' \in NrfCtxs /\ (nrf').dirty = nrf.dirty \cup {"retr"}
        /\ (nrf').way = nrf.way /\ (nrf').state = nrf.state /\ (nrf').addr = nrf.addr
        /\ (nrf').size = nrf.size /\ (nrf').payload = nrf.payload
        /\ (nrf').channel = nrf.channel /\ (nrf').rate = nrf.rate /\ (nrf').dyn = nrf.dyn
        /\ (nrf').ard = delay
    BY <1>2, <2>1, <2>2 DEF NrfCtxs
  <2>4. held' = IF delay = 0 /\ "rate" \notin nrf.dirty
                THEN held \ {"delay"} ELSE held \cup {"delay"}
    BY <2>1
  <2>5. Slow(nrf', held')
    BY <2>2, <2>3, <2>4 DEF Slow
  <2>6. Bounds(held)
    BY <1>h, <2>4 DEF Bounds
  <2> QED
    BY <1>1, <1>2, <1>3, <2>3, <2>5, <2>6, SettingStep
<1>7. CASE \E on \in NrfDyn : nrf_set_dynamic_payload(on)
  <2>1. PICK on \in NrfDyn :
           /\ nrf' = [nrf EXCEPT !.dyn = on, !.dirty = nrf.dirty \cup {"dyn"}]
           /\ held' = held
    BY <1>7 DEF nrf_set_dynamic_payload, Set
  <2>2. nrf.dirty \cup {"dyn"} \in SUBSET DirtyBits /\ on \in BOOLEAN
    BY <1>2, NrfAssumption DEF NrfCtxs, DirtyBits
  <2>3. /\ nrf' \in NrfCtxs /\ (nrf').dirty = nrf.dirty \cup {"dyn"}
        /\ (nrf').way = nrf.way /\ (nrf').state = nrf.state /\ (nrf').addr = nrf.addr
        /\ (nrf').size = nrf.size /\ (nrf').payload = nrf.payload
        /\ (nrf').channel = nrf.channel /\ (nrf').ard = nrf.ard /\ (nrf').rate = nrf.rate
    BY <1>2, <2>1, <2>2 DEF NrfCtxs
  <2>4. Slow(nrf', held') /\ Bounds(held)
    BY <1>2, <1>h, <2>1, <2>3 DEF Slow, Bounds
  <2> QED
    BY <1>1, <1>2, <1>3, <2>3, <2>4, SettingStep
<1> QED
  BY <1>4, <1>5, <1>6, <1>7

\* Power saving is no setting of the radio.
LEMMA PowersaveStep ==
    ASSUME NrfInd, NEW on \in NrfSave, nrf_set_powersave(on) PROVE NrfInd'
<1>1. nrf \in NrfCtxs /\ UNCHANGED <<nrfPc, bus, seen, ce, radio, did, held>>
  BY DEF NrfInd, NrfTypeOK, nrf_set_powersave
<1>2. /\ nrf' \in NrfCtxs
      /\ (nrf').way = nrf.way /\ (nrf').state = nrf.state /\ (nrf').addr = nrf.addr
      /\ (nrf').size = nrf.size /\ (nrf').payload = nrf.payload
      /\ (nrf').dyn = nrf.dyn /\ (nrf').rate = nrf.rate /\ (nrf').channel = nrf.channel
      /\ (nrf').ard = nrf.ard /\ (nrf').dirty = nrf.dirty
  BY <1>1, NrfAssumption DEF NrfCtxs, nrf_set_powersave
<1>3. \A r : /\ StepValue(nrf', r) = StepValue(nrf, r)
             /\ Needed(nrf', r) <=> Needed(nrf, r)
  BY <1>2 DEF StepValue, Config, Pipes, Needed
<1>4. /\ Asking(nrf) => Asking(nrf')
      /\ Known(nrf, held, radio.reg) => Known(nrf', held', radio.reg)
      /\ Slow(nrf, held) => Slow(nrf', held')
      /\ Kept(nrf, held, radio.reg) => Kept(nrf', held', radio.reg)
      /\ Config(nrf', FALSE) = Config(nrf, FALSE)
  BY <1>1, <1>2, <1>3 DEF Asking, Known, Slow, Kept, HoldsRecv, HoldsSend, HoldsWidth, Config
<1>5. ASSUME NEW reg, NEW k, RightUpTo(nrf, held, reg, k)
      PROVE  RightUpTo(nrf', held', reg, k)
  BY <1>1, <1>2, <1>3, <1>5 DEF RightUpTo
<1>6. ASSUME NEW k, MoreFrom(nrf, k) PROVE MoreFrom(nrf', k)
  BY <1>2, <1>3, <1>6 DEF MoreFrom
<1>7. Outcome => Outcome'
  BY <1>1, <1>2 DEF Outcome
<1>8. NrfTypeOK' /\ Slow(nrf', held') /\ Kept(nrf', held', radio'.reg)
  BY <1>1, <1>2, <1>4 DEF NrfInd, NrfTypeOK, RadioTypeOK
<1>9. ASSUME Idle PROVE Idle'
  BY <1>1, <1>2, <1>4, <1>7, <1>9 DEF Idle, NoChain, Off, Answered, ClearComes
<1>10. ASSUME SettingUp PROVE SettingUp'
  <2>1. PICK cmd \in DOMAIN Order[nrf.way], done \in BOOLEAN :
          /\ cmd # "CE" /\ Order[nrf.way][nrf.state] = Order[nrf.way][cmd] + 1
          /\ Chained(bus, cmd, StepValue(nrf, cmd), done)
          /\ radio.tx = IF done /\ cmd = "TX_PAYLOAD" THEN <<nrf.payload>> ELSE <<>>
          /\ RightUpTo(nrf, held, IF done THEN radio.reg ELSE Written(nrf, radio.reg, cmd),
                       Order[nrf.way][nrf.state])
    BY <1>10 DEF SettingUp
  <2>2. Written(nrf', radio.reg, cmd) = Written(nrf, radio.reg, cmd)
    BY <1>3 DEF Written
  <2>3. RightUpTo(nrf', held', IF done THEN radio'.reg ELSE Written(nrf', radio'.reg, cmd),
                  Order[(nrf').way][(nrf').state])
    BY <1>1, <1>2, <1>5, <2>1, <2>2
  <2>4. Chained(bus, cmd, StepValue(nrf, cmd), done)'
    BY <1>1, <1>3, <2>1 DEF Chained
  <2>5. radio'.tx = IF done /\ cmd = "TX_PAYLOAD" THEN <<(nrf').payload>> ELSE <<>>
    BY <1>1, <1>2, <2>1
  <2>6. cmd \in DOMAIN Order[(nrf').way]
        /\ Order[(nrf').way][(nrf').state] = Order[(nrf').way][cmd] + 1 /\ cmd # "CE"
    BY <1>2, <2>1
  <2>7. /\ Asking(nrf') /\ (nrf').state \in DOMAIN Order[(nrf').way]
        /\ (nrf').way = "send" => (nrf').payload \in NrfPayloads
        /\ Off' /\ Answered' /\ (nrfPc' = "status" => Len(bus') = 1)
        /\ ClearBehind' => MoreFrom(nrf', Order[(nrf').way][(nrf').state])
    BY <1>1, <1>2, <1>4, <1>6, <1>10 DEF SettingUp, Off, Answered, ClearComes, ClearBehind
  <2> QED
    BY <2>3, <2>4, <2>5, <2>6, <2>7 DEF SettingUp
<1>11. Ready => Ready'
  BY <1>1, <1>2, <1>3, <1>4 DEF Ready
<1>12. ASSUME Waiting PROVE Waiting'
  BY <1>1, <1>2, <1>11, <1>12 DEF Waiting, OnWay, Off, NoChain
<1>13. ASSUME Fetching PROVE Fetching'
  BY <1>1, <1>2, <1>11, <1>13 DEF Fetching, Off, Answered, ClearComes
<1>14. ASSUME Finishing PROVE Finishing'
  BY <1>1, <1>2, <1>4, <1>7, <1>14 DEF Finishing, Off, Answered, ClearComes, Chained
<1> QED
  BY <1>8, <1>9, <1>10, <1>12, <1>13, <1>14 DEF NrfInd

-----------------------------------------------------------------------------
(* Handlers                                                                *)

\* The transfers as the handlers queue them.
LEMMA Transfers ==
    /\ \A cmd, value, cb : Transfer(cmd, value, cb) = Of(cmd, value, cb, FALSE)
    /\ ReadStatus = Read(FALSE) /\ ClearStatus = Clear(FALSE)
    /\ \A cmd, value, cb, done :
          /\ Of(cmd, value, cb, done).cmd = cmd /\ Of(cmd, value, cb, done).value = value
          /\ Of(cmd, value, cb, done).cb = cb /\ Of(cmd, value, cb, done).done = done
BY DEF Transfer, Of, ReadStatus, ClearStatus, Read, Clear

LEMMA CallbackReturnsStep == NrfInd /\ CallbackReturns => NrfInd'
<1> SUFFICES ASSUME NrfInd, CallbackReturns PROVE NrfInd'
  OBVIOUS
<1>1. /\ nrfPc # "thread" /\ nrfPc' = "thread" /\ UNCHANGED <<nrf, seen, ce, radio, did, held>>
      /\ bus' = IF nrfPc = "status" THEN Append(bus, Clear(FALSE)) ELSE bus
  BY Transfers DEF CallbackReturns
<1>2. NrfTypeOK' /\ Slow(nrf', held') /\ Kept(nrf', held', radio'.reg)
  BY <1>1 DEF NrfInd, NrfTypeOK, RadioTypeOK, Slow, Kept, HoldsRecv, HoldsSend, HoldsWidth
<1>3. CASE Idle /\ nrfPc = "status"
  <2>1. bus' = <<Clear(FALSE)>>
    BY <1>1, <1>3, Pairs DEF Idle
  <2>2. ClearComes'
    <3>1. Len(bus') = 1 /\ bus'[1] = Clear(FALSE)
      BY <2>1
    <3>2. (bus'[1]).cb = "none" /\ ~(bus'[1]).done
      BY <3>1 DEF Clear, Of
    <3>3. 1 \in 1..Len(bus')
      BY <3>1
    <3> QED
      BY <3>2, <3>3 DEF ClearComes
  <2>3. Idle'
    BY <1>1, <1>3, <2>1, <2>2 DEF Idle, NoChain, Off, Answered
  <2> QED
    BY <1>2, <2>3 DEF NrfInd
<1>4. CASE Idle /\ nrfPc # "status"
  <2>1. Idle'
    BY <1>1, <1>4 DEF Idle, NoChain, Off, Answered, ClearComes
  <2> QED
    BY <1>2, <2>1 DEF NrfInd
<1>5. CASE SettingUp
  <2>1. PICK cmd \in DOMAIN Order[nrf.way], done \in BOOLEAN :
          /\ cmd # "CE" /\ Order[nrf.way][nrf.state] = Order[nrf.way][cmd] + 1
          /\ Chained(bus, cmd, StepValue(nrf, cmd), done)
          /\ radio.tx = IF done /\ cmd = "TX_PAYLOAD" THEN <<nrf.payload>> ELSE <<>>
          /\ RightUpTo(nrf, held, IF done THEN radio.reg ELSE Written(nrf, radio.reg, cmd),
                       Order[nrf.way][nrf.state])
    BY <1>5 DEF SettingUp
  <2>2. CASE nrfPc = "status"
    <3> DEFINE t == Of(cmd, StepValue(nrf, cmd), "chain", done)
    <3>1. bus = <<t>>
      <4>1. Len(bus) = 1
        BY <1>5, <2>2 DEF SettingUp
      <4>2. ASSUME NEW a, NEW b, bus = <<a, b>> PROVE FALSE
        <5>1. Len(bus) = 2
          BY <4>2
        <5> QED
          BY <4>1, <5>1
      <4> QED
        BY <2>1, <4>2 DEF Chained
    <3>2. bus' = <<t, Clear(FALSE)>>
      <4> HIDE DEF t
      <4> QED
        BY <1>1, <2>2, <3>1, Pairs
    <3>3. Chained(bus, cmd, StepValue(nrf, cmd), done)'
      BY <1>1, <3>2 DEF Chained
    <3>4. ClearComes'
      <4>1. Len(bus') = 2 /\ bus'[2] = Clear(FALSE)
        BY <3>2
      <4>2. (bus'[2]).cb = "none" /\ ~(bus'[2]).done
        BY <4>1 DEF Clear, Of
      <4>3. 2 \in 1..Len(bus')
        BY <4>1
      <4> QED
        BY <4>2, <4>3 DEF ClearComes
    <3>5. Answered'
      BY <1>1, <1>5, <3>4 DEF SettingUp, Answered
    <3>6. MoreFrom(nrf, Order[nrf.way][nrf.state])
      BY <1>5, <2>2 DEF SettingUp, ClearBehind
    <3>7. SettingUp'
      BY <1>1, <1>5, <2>1, <3>3, <3>5, <3>6 DEF SettingUp, Off
    <3> QED
      BY <1>2, <3>7 DEF NrfInd
  <2>3. CASE nrfPc # "status"
    <3>1. Chained(bus, cmd, StepValue(nrf, cmd), done)'
      BY <1>1, <2>1, <2>3 DEF Chained
    <3>2. Answered' /\ (ClearBehind' => ClearBehind)
      BY <1>1, <1>5, <2>3 DEF SettingUp, Answered, ClearComes, ClearBehind
    <3>3. SettingUp'
      BY <1>1, <1>5, <2>1, <3>1, <3>2 DEF SettingUp, Off
    <3> QED
      BY <1>2, <3>3 DEF NrfInd
  <2> QED
    BY <2>2, <2>3
<1> QED
  BY <1>1, <1>3, <1>4, <1>5 DEF NrfInd, Waiting, Fetching, Finishing

\* Only in the air can the pin have fallen.
LEMMA OnAirOnly ==
    ASSUME NrfInd, ce \/ radio.edge
    PROVE  Waiting /\ ce /\ bus = <<>> /\ OnWay(radio.status)
BY DEF NrfInd, Idle, SettingUp, Waiting, Fetching, Finishing, Off

LEMMA InterruptStep == NrfInd /\ nrf_interrupt => NrfInd'
<1> SUFFICES ASSUME NrfInd, nrf_interrupt PROVE NrfInd'
  OBVIOUS
<1>1. Waiting /\ bus = <<>> /\ OnWay(radio.status)
  BY OnAirOnly DEF nrf_interrupt
<1>2. /\ ce' = FALSE /\ radio' = [radio EXCEPT !.edge = FALSE]
      /\ UNCHANGED <<nrf, nrfPc, seen, did, held>>
  BY DEF nrf_interrupt
<1>3. bus' = <<Read(FALSE)>>
  <2>1. \A i \in 1..Len(bus) : bus[i].cmd # "STATUS"
    BY <1>1
  <2> QED
    BY <1>1, <2>1, Pairs, Transfers DEF nrf_interrupt
<1>4. /\ radio'.reg = radio.reg /\ radio'.status = radio.status /\ radio'.rx = radio.rx
      /\ radio'.tx = radio.tx /\ radio'.edge = FALSE
      /\ radio' = [reg |-> radio'.reg, status |-> radio'.status, rx |-> radio'.rx,
                   tx |-> radio'.tx, edge |-> radio'.edge]
  BY <1>2 DEF NrfInd, NrfTypeOK, RadioTypeOK
<1>5. NrfTypeOK' /\ Slow(nrf', held') /\ Kept(nrf', held', radio'.reg)
  BY <1>2, <1>4 DEF NrfInd, NrfTypeOK, RadioTypeOK, Slow, Kept, HoldsRecv, HoldsSend, HoldsWidth, Registers
<1>6. Waiting'
  BY <1>1, <1>2, <1>3, <1>4 DEF Waiting, Ready, OnWay, Off
<1> QED
  BY <1>5, <1>6 DEF NrfInd

-----------------------------------------------------------------------------
(* The radio                                                               *)

\* A bit of STATUS rises.
LEMMA RaisedFacts ==
    ASSUME RadioTypeOK, NEW bit \in StatusBits
    PROVE  /\ Raised(bit) = [reg |-> radio.reg, status |-> radio.status \cup {bit},
                             rx |-> radio.rx, tx |-> radio.tx,
                             edge |-> (radio.edge \/ radio.status = {})]
           /\ radio.status \cup {bit} \in SUBSET StatusBits
<1>1. radio = [reg |-> radio.reg, status |-> radio.status,
                rx |-> radio.rx, tx |-> radio.tx, edge |-> radio.edge]
  BY DEF RadioTypeOK
<1>2. radio.status \cup {bit} \in SUBSET StatusBits
  BY DEF RadioTypeOK
<1> DEFINE edge == radio.edge \/ radio.status = {}
           status == radio.status \cup {bit}
<1>3. Raised(bit) = [radio EXCEPT !.status = status, !.edge = edge]
  BY <1>1 DEF Raised
<1> HIDE DEF edge, status
<1>4. Raised(bit) = [reg |-> radio.reg, status |-> status, rx |-> radio.rx,
                     tx |-> radio.tx, edge |-> edge]
  BY <1>1, <1>3
<1> QED
  BY <1>2, <1>4 DEF edge, status

\* What the radio listens to or sends while it is in the air.
LEMMA ReadyConfig ==
    ASSUME Ready PROVE radio.reg["CONFIG"] = Config(nrf, TRUE)
<1>1. nrf.way \in {"recv", "send"}
  BY DEF Ready, Asking
<1>2. "CONFIG" \in DOMAIN Order[nrf.way]
  BY <1>1, OrderTypes
<1> QED
  BY <1>2 DEF Ready, Exempt, StepValue

LEMMA ConfigFacts ==
    /\ Config(nrf, TRUE) = [up |-> TRUE, rx |-> TRUE] => nrf.way = "recv"
    /\ Config(nrf, TRUE) = [up |-> TRUE, rx |-> FALSE] => nrf.way # "recv"
<1>1. CASE nrf.way = "recv"
  <2>1. Config(nrf, TRUE) = [up |-> TRUE, rx |-> TRUE]
    BY <1>1 DEF Config
  <2>2. [up |-> TRUE, rx |-> TRUE].rx # [up |-> TRUE, rx |-> FALSE].rx
    OBVIOUS
  <2> QED
    BY <1>1, <2>1, <2>2
<1>2. CASE nrf.way # "recv"
  <2>1. Config(nrf, TRUE) = [up |-> TRUE, rx |-> FALSE]
    BY <1>2 DEF Config
  <2>2. [up |-> TRUE, rx |-> TRUE].rx # [up |-> TRUE, rx |-> FALSE].rx
    OBVIOUS
  <2> QED
    BY <1>2, <2>1, <2>2
<1> QED
  BY <1>1, <1>2

\* What is kept stays so while neither the request nor a register changes.
LEMMA StillKept ==
    ASSUME NrfInd, UNCHANGED <<nrf, held>>, radio'.reg = radio.reg
    PROVE  Slow(nrf', held') /\ Kept(nrf', held', radio'.reg)
BY DEF NrfInd, Slow, Kept, HoldsRecv, HoldsSend, HoldsWidth

LEMMA RadioReceivesStep == NrfInd /\ RadioReceives => NrfInd'
<1> SUFFICES ASSUME NrfInd, RadioReceives PROVE NrfInd'
  OBVIOUS
<1>1. Waiting /\ ce /\ bus = <<>> /\ OnWay(radio.status)
  BY OnAirOnly DEF RadioReceives
<1>2. UNCHANGED <<nrf, nrfPc, bus, seen, ce, did, held>>
  BY DEF RadioReceives
<1>3. PICK width \in Widths : radio' = [Raised("RX_DR") EXCEPT !.rx = Append(@, width)]
  BY DEF RadioReceives
<1>4. nrf.way = "recv"
  <2>1. Config(nrf, TRUE) = [up |-> TRUE, rx |-> TRUE]
    BY <1>1, ReadyConfig DEF Waiting, RadioReceives
  <2> QED
    BY <2>1, ConfigFacts
<1>5. RadioTypeOK
  BY DEF NrfInd, NrfTypeOK
<1>6. Raised("RX_DR") = [reg |-> radio.reg, status |-> radio.status \cup {"RX_DR"},
                         rx |-> radio.rx, tx |-> radio.tx,
                         edge |-> (radio.edge \/ radio.status = {})]
      /\ radio.status \cup {"RX_DR"} \in SUBSET StatusBits
  BY <1>5, RaisedFacts DEF StatusBits
<1> DEFINE rx == Append(radio.rx, width)
           edge == radio.edge \/ radio.status = {}
           status == radio.status \cup {"RX_DR"}
<1>7. width \in Nat
  <2>1. CASE radio.reg.DYNPD = {}
    <3>1. width = radio.reg["RX_PW"]
      BY <2>1 DEF Widths
    <3> QED
      BY <1>5, <3>1 DEF RadioTypeOK
  <2>2. CASE radio.reg.DYNPD # {}
    <3>1. width \in NrfTxSizes \cup {MaxPayload + 1}
      BY <2>2 DEF Widths
    <3> QED
      BY <3>1, NrfAssumption DEF MaxPayload
  <2> QED
    BY <2>1, <2>2
<1>8. radio.rx \in Seq(Nat)
  BY <1>5 DEF RadioTypeOK
<1>9. /\ rx \in Seq(Nat) /\ rx # <<>> /\ Len(rx) = Len(radio.rx) + 1
      /\ \A i \in 1..Len(radio.rx) : rx[i] = radio.rx[i]
      /\ rx[Len(radio.rx) + 1] = width
  BY <1>7, <1>8, AppendProperties
<1> HIDE DEF rx, edge, status
<1>10. radio' = [reg |-> radio.reg, status |-> status, rx |-> rx, tx |-> radio.tx,
                 edge |-> edge]
  <2>1. Raised("RX_DR") = [reg |-> radio.reg, status |-> status, rx |-> radio.rx,
                           tx |-> radio.tx, edge |-> edge]
    BY <1>6 DEF edge, status
  <2>2. Raised("RX_DR").rx = radio.rx
    BY <2>1
  <2>3. radio' = [Raised("RX_DR") EXCEPT !.rx = rx]
    BY <1>3, <2>2 DEF rx
  <2> QED
    BY <2>1, <2>3
<1>11. /\ radio'.reg = radio.reg /\ radio'.status = status /\ radio'.rx = rx
       /\ radio'.tx = radio.tx /\ radio'.edge = edge
  BY <1>10
<1>13. Slow(nrf', held') /\ Kept(nrf', held', radio'.reg)
  BY <1>2, <1>11, StillKept
<1>14. RadioTypeOK'
  <2>1. edge \in BOOLEAN /\ status \in SUBSET StatusBits
    BY <1>6 DEF edge, status
  <2> QED
    BY <1>5, <1>9, <1>10, <1>11, <2>1 DEF RadioTypeOK
<1>15. OnWay(radio.status)'
  BY <1>1, <1>2, <1>4, <1>9, <1>11 DEF OnWay, status
<1>16. Waiting'
  BY <1>1, <1>2, <1>11, <1>15 DEF Waiting, Ready
<1> QED
  BY <1>2, <1>13, <1>14, <1>16 DEF NrfInd, NrfTypeOK

LEMMA RadioSendsStep == NrfInd /\ RadioSends => NrfInd'
<1> SUFFICES ASSUME NrfInd, RadioSends PROVE NrfInd'
  OBVIOUS
<1>1. Waiting /\ ce /\ bus = <<>> /\ OnWay(radio.status)
  BY OnAirOnly DEF RadioSends
<1>2. /\ UNCHANGED <<nrf, nrfPc, bus, seen, ce, held>>
      /\ radio.tx # <<>> /\ "MAX_RT" \notin radio.status
  BY DEF RadioSends
<1>3. nrf.way = "send"
  <2>1. Config(nrf, TRUE) = [up |-> TRUE, rx |-> FALSE]
    BY <1>1, ReadyConfig DEF Waiting, RadioSends
  <2>2. nrf.way # "recv"
    BY <2>1, ConfigFacts
  <2> QED
    BY <1>1, <2>2 DEF Waiting, Ready, Asking
<1>4. RadioTypeOK
  BY DEF NrfInd, NrfTypeOK
<1>5. radio.status = {} /\ radio.tx = <<nrf.payload>> /\ nrf.payload \in NrfPayloads
  BY <1>1, <1>2, <1>3 DEF OnWay
<1>6. ASSUME NEW bit \in {"TX_DS", "MAX_RT"}, NEW tx \in Seq(Payloads),
             radio' = [Raised(bit) EXCEPT !.tx = tx],
             bit = "TX_DS" => tx = <<>> /\ did' = "acked",
             bit = "MAX_RT" => tx = <<nrf.payload>> /\ did' = "failed"
      PROVE  NrfInd'
  <2> DEFINE edge == radio.edge \/ radio.status = {}
             status == radio.status \cup {bit}
  <2>1. Raised(bit) = [reg |-> radio.reg, status |-> status,
                         rx |-> radio.rx, tx |-> radio.tx, edge |-> edge]
        /\ status \in SUBSET StatusBits
    BY <1>4, RaisedFacts DEF StatusBits
  <2>2. edge \in BOOLEAN
    OBVIOUS
  <2>3. status = {bit}
    BY <1>5
  <2> HIDE DEF edge, status
  <2>4. radio' = [reg |-> radio.reg, status |-> status, rx |-> radio.rx, tx |-> tx,
                  edge |-> edge]
    BY <1>6, <2>1
  <2>5. /\ radio'.reg = radio.reg /\ radio'.status = status /\ radio'.rx = radio.rx
        /\ radio'.tx = tx /\ radio'.edge = edge
    BY <2>4
  <2>6. RadioTypeOK' /\ Slow(nrf', held') /\ Kept(nrf', held', radio'.reg)
    BY <1>2, <1>4, <2>1, <2>2, <2>4, <2>5, StillKept DEF RadioTypeOK
  <2>7. OnWay(radio.status)'
    BY <1>2, <1>3, <1>5, <1>6, <2>3, <2>5 DEF OnWay
  <2>8. Waiting'
    BY <1>1, <1>2, <2>5, <2>7 DEF Waiting, Ready
  <2> QED
    BY <1>2, <2>6, <2>8 DEF NrfInd, NrfTypeOK
<1>7. CASE /\ radio' = [Raised("TX_DS") EXCEPT !.tx = Tail(@)]
           /\ did' = IF Head(radio.tx) = nrf.payload THEN "acked" ELSE "stray"
  <2>1. Head(radio.tx) = nrf.payload /\ Tail(radio.tx) = <<>>
    BY <1>5, Pairs
  <2>2. Raised("TX_DS").tx = radio.tx
    BY <1>4, RaisedFacts DEF StatusBits
  <2>3. radio' = [Raised("TX_DS") EXCEPT !.tx = <<>>]
    BY <1>7, <2>1, <2>2
  <2>4. <<>> \in Seq(Payloads)
    BY EmptySeq
  <2> QED
    BY <1>6, <1>7, <2>1, <2>3, <2>4
<1>8. CASE radio' = Raised("MAX_RT") /\ did' = "failed"
  <2>1. radio' = [Raised("MAX_RT") EXCEPT !.tx = radio.tx]
    BY <1>4, <1>8, RaisedFacts DEF StatusBits
  <2>2. radio.tx \in Seq(Payloads)
    BY <1>4 DEF RadioTypeOK
  <2> QED
    BY <1>5, <1>6, <1>8, <2>1, <2>2
<1> QED
  BY <1>7, <1>8 DEF RadioSends

-----------------------------------------------------------------------------
(* The wire                                                                *)

Mark(queue) == [queue EXCEPT ![1].done = TRUE]

LEMMA Carried ==
    ASSUME NEW cmd, NEW value, NEW cb, NEW b
    PROVE  /\ Mark(<<Of(cmd, value, cb, FALSE)>>) = <<Of(cmd, value, cb, TRUE)>>
           /\ Mark(<<Of(cmd, value, cb, FALSE), b>>) = <<Of(cmd, value, cb, TRUE), b>>
<1>1. [Of(cmd, value, cb, FALSE) EXCEPT !.done = TRUE] = Of(cmd, value, cb, TRUE)
  <2>1. ASSUME NEW x, NEW y
        PROVE  [Of(cmd, value, cb, x) EXCEPT !.done = y] = Of(cmd, value, cb, y)
    BY DEF Of
  <2> QED
    BY <2>1, Zenon
<1> DEFINE t == Of(cmd, value, cb, FALSE)
           u == Of(cmd, value, cb, TRUE)
<1>2. Mark(<<t>>) = [<<t>> EXCEPT ![1] = u]
  BY <1>1 DEF Mark
<1>3. Mark(<<t, b>>) = [<<t, b>> EXCEPT ![1] = u]
  BY <1>1 DEF Mark
<1> HIDE DEF t, u
<1>4. [<<t>> EXCEPT ![1] = u] = <<u>> /\ [<<t, b>> EXCEPT ![1] = u] = <<u, b>>
  OBVIOUS
<1> QED
  BY <1>2, <1>3, <1>4 DEF t, u

\* A transfer of the status is carried out.
LEMMA WireOfStatus ==
    ASSUME NrfTypeOK, Wire, Head(bus).cmd = "STATUS"
    PROVE  /\ UNCHANGED <<nrf, nrfPc, ce, did, held>>
           /\ seen' = radio.status /\ radio'.status = radio.status \ seen
           /\ radio'.reg = radio.reg /\ radio'.rx = radio.rx /\ radio'.tx = radio.tx
           /\ radio'.edge = radio.edge /\ NrfTypeOK'
<1>1. WireStatus /\ UNCHANGED <<nrfPc, ce>>
  BY DEF Wire, FifoCommands
<1> DEFINE status == radio.status \ seen
<1>2. status \in SUBSET StatusBits
  BY DEF NrfTypeOK, RadioTypeOK
<1>3. radio' = [radio EXCEPT !.status = status] /\ seen' = radio.status
      /\ UNCHANGED <<nrf, did, held>>
  BY <1>1 DEF WireStatus, Wire, LengthLeft
<1> HIDE DEF status
<1>4. /\ radio' = [reg |-> radio.reg, status |-> status, rx |-> radio.rx,
                   tx |-> radio.tx, edge |-> radio.edge]
      /\ radio'.status = status /\ radio'.reg = radio.reg /\ radio'.rx = radio.rx
      /\ radio'.tx = radio.tx /\ radio'.edge = radio.edge
  BY <1>3 DEF NrfTypeOK, RadioTypeOK
<1>5. NrfTypeOK'
  BY <1>1, <1>2, <1>3, <1>4 DEF NrfTypeOK, RadioTypeOK
<1> QED
  BY <1>1, <1>3, <1>4, <1>5 DEF status

\* The write that clears the status is carried out.
LEMMA WireClear ==
    ASSUME NrfTypeOK, Wire, NEW d \in BOOLEAN, NEW b,
           bus = <<Clear(d)>> \/ bus = <<Clear(d), b>>
    PROVE  /\ ~d /\ UNCHANGED <<nrf, nrfPc, ce, did, held>>
           /\ bus = <<Clear(d)>> => bus' = <<Clear(TRUE)>>
           /\ bus = <<Clear(d), b>> => bus' = <<Clear(TRUE), b>>
           /\ seen' = radio.status /\ radio'.status = radio.status \ seen
           /\ radio'.reg = radio.reg /\ radio'.rx = radio.rx /\ radio'.tx = radio.tx
           /\ radio'.edge = radio.edge /\ NrfTypeOK'
<1>1. Head(bus) = Clear(d)
  BY Pairs
<1>2. ~d
  BY <1>1 DEF Wire, Clear, Of
<1>3. Head(bus).cmd = "STATUS"
  BY <1>1 DEF Clear, Of
<1>4. bus' = Mark(bus)
  BY DEF Wire, Mark
<1>5. /\ bus = <<Clear(d)>> => bus' = <<Clear(TRUE)>>
      /\ bus = <<Clear(d), b>> => bus' = <<Clear(TRUE), b>>
  <2>1. d = FALSE
    BY <1>2
  <2>2. /\ Mark(<<Clear(FALSE)>>) = <<Clear(TRUE)>>
        /\ Mark(<<Clear(FALSE), b>>) = <<Clear(TRUE), b>>
    BY Carried, Zenon DEF Clear
  <2> QED
    BY <1>4, <2>1, <2>2, Zenon
<1> QED
  BY <1>2, <1>3, <1>5, WireOfStatus

\* A command of the chain is carried out.
LEMMA WireCommand ==
    ASSUME Wire, NEW cmd, cmd # "STATUS", NEW value, NEW done \in BOOLEAN,
           \/ bus = <<Of(cmd, value, "chain", done)>>
           \/ bus = <<Of(cmd, value, "chain", done), Clear(FALSE)>>
    PROVE  /\ ~done /\ UNCHANGED <<nrfPc, ce>> /\ LengthLeft
           /\ bus = <<Of(cmd, value, "chain", done), Clear(FALSE)>>
                => bus' = <<Of(cmd, value, "chain", TRUE), Clear(FALSE)>>
           /\ Chained(bus', cmd, value, TRUE) /\ Len(bus') = Len(bus)
           /\ ClearComes => ClearComes'
           /\ ClearBehind' => ClearBehind
           /\ IF cmd \in FifoCommands THEN WireFifo(cmd, value)
              ELSE radio' = [radio EXCEPT !.reg[cmd] = value] /\ UNCHANGED <<nrf, seen, did>>
<1> DEFINE t == Of(cmd, value, "chain", done)
           u == Of(cmd, value, "chain", TRUE)
           c == Clear(FALSE)
<1>1. t.cmd = cmd /\ t.value = value /\ t.done = done /\ t.cb = "chain" /\ u.cb = "chain"
  BY DEF Of
<1>2. Head(bus) = t
  BY Pairs
<1>3. ~done /\ UNCHANGED <<nrfPc, ce>> /\ LengthLeft /\ bus' = Mark(bus)
  BY <1>1, <1>2 DEF Wire, Mark
<1>4. IF cmd \in FifoCommands THEN WireFifo(cmd, value)
      ELSE radio' = [radio EXCEPT !.reg[cmd] = value] /\ UNCHANGED <<nrf, seen, did>>
  <2> HIDE DEF t
  <2> QED
    BY <1>1, <1>2 DEF Wire
<1>5. /\ bus = <<t>> => bus' = <<u>>
      /\ bus = <<t, c>> => bus' = <<u, c>>
  <2>1. done = FALSE
    BY <1>3
  <2>2. t = Of(cmd, value, "chain", FALSE)
    BY <2>1
  <2>3. Mark(<<t>>) = <<u>> /\ Mark(<<t, c>>) = <<u, c>>
    BY <2>2, Carried, Zenon
  <2> QED
    BY <1>3, <2>3, Zenon
<1>6. Chained(bus', cmd, value, TRUE)
  BY <1>5 DEF Chained
<1> HIDE DEF t, u, c
<1>7. CASE bus = <<t>>
  <2>1. bus' = <<u>>
    BY <1>5, <1>7
  <2>2. Len(bus') = 1 /\ Len(bus) = 1 /\ bus[1] = t
    BY <1>7, <2>1
  <2>3. /\ ClearComes => ClearComes'
        /\ ClearBehind' => ClearBehind
    BY <1>1, <1>3, <2>2 DEF ClearComes, ClearBehind
  <2>4. bus # <<t, c>>
    <3>1. Len(<<t, c>>) = 2
      OBVIOUS
    <3> QED
      BY <2>2, <3>1
  <2> QED
    BY <1>3, <1>4, <1>6, <2>2, <2>3, <2>4 DEF t, c
<1>8. CASE bus = <<t, c>>
  <2>1. bus' = <<u, c>>
    BY <1>5, <1>8
  <2>2. Len(bus') = 2 /\ Len(bus) = 2 /\ bus[1] = t /\ bus[2] = c /\ bus'[2] = c
    BY <1>8, <2>1
  <2>3. c.cb = "none" /\ ~c.done
    BY DEF c, Clear, Of
  <2>4. 2 \in 1..Len(bus')
    BY <2>2
  <2>5. ClearComes' /\ ClearBehind
    BY <2>2, <2>3, <2>4 DEF ClearComes, ClearBehind
  <2>6. bus' = <<Of(cmd, value, "chain", TRUE), Clear(FALSE)>>
    BY <2>1 DEF u, c
  <2> QED
    BY <1>3, <1>4, <1>6, <2>2, <2>5, <2>6
<1> QED
  BY <1>7, <1>8 DEF t, c

LEMMA WireIdle == NrfInd /\ Idle /\ Wire => NrfInd'
<1> SUFFICES ASSUME NrfInd, Idle, Wire PROVE NrfInd'
  OBVIOUS
<1>1. PICK d \in BOOLEAN : bus = <<Clear(d)>>
  BY DEF Idle, NoChain, Wire
<1>2. /\ UNCHANGED <<nrf, nrfPc, ce, did, held>> /\ bus' = <<Clear(TRUE)>>
      /\ radio'.status = radio.status \ seen
      /\ radio'.reg = radio.reg /\ radio'.rx = radio.rx /\ radio'.tx = radio.tx
      /\ radio'.edge = radio.edge /\ NrfTypeOK'
  BY <1>1, WireClear DEF NrfInd
<1>3. radio'.status = {}
  BY <1>2 DEF Idle, Answered
<1>4. Answered' /\ NoChain' /\ Off'
  BY <1>2, <1>3 DEF Idle, Answered, NoChain, Off
<1>5. nrfPc # "status"
  BY <1>1 DEF Idle
<1>6. Idle'
  BY <1>2, <1>4, <1>5 DEF Idle, Outcome
<1> QED
  BY <1>2, <1>6, StillKept DEF NrfInd

LEMMA WireSettingUp == NrfInd /\ SettingUp /\ Wire => NrfInd'
<1> SUFFICES ASSUME NrfInd, SettingUp, Wire PROVE NrfInd'
  OBVIOUS
<1>1. PICK cmd \in DOMAIN Order[nrf.way], done \in BOOLEAN :
          /\ cmd # "CE" /\ Order[nrf.way][nrf.state] = Order[nrf.way][cmd] + 1
          /\ Chained(bus, cmd, StepValue(nrf, cmd), done)
          /\ radio.tx = IF done /\ cmd = "TX_PAYLOAD" THEN <<nrf.payload>> ELSE <<>>
          /\ RightUpTo(nrf, held, IF done THEN radio.reg ELSE Written(nrf, radio.reg, cmd),
                       Order[nrf.way][nrf.state])
  BY DEF SettingUp
<1>2. nrf.way \in {"recv", "send"}
  BY DEF SettingUp, Asking
<1>3. cmd \in StepNames
  BY <1>2, OrderTypes
<1>4. NrfTypeOK /\ RadioTypeOK /\ Slow(nrf, held) /\ Kept(nrf, held, radio.reg)
  BY DEF NrfInd, NrfTypeOK
<1> DEFINE value == StepValue(nrf, cmd)
           k == Order[nrf.way][nrf.state]
<1>5. CASE \/ bus = <<Of(cmd, value, "chain", done)>>
           \/ bus = <<Of(cmd, value, "chain", done), Clear(FALSE)>>
  <2>1. /\ ~done /\ UNCHANGED <<nrfPc, ce>> /\ LengthLeft
        /\ Chained(bus', cmd, value, TRUE) /\ Len(bus') = Len(bus)
        /\ ClearComes => ClearComes'
        /\ ClearBehind' => ClearBehind
        /\ IF cmd \in FifoCommands THEN WireFifo(cmd, value)
           ELSE radio' = [radio EXCEPT !.reg[cmd] = value] /\ UNCHANGED <<nrf, seen, did>>
    <3>1. cmd # "STATUS"
      BY <1>3 DEF StepNames
    <3> HIDE DEF value
    <3> QED
      BY <1>5, <3>1, WireCommand
  <2>2. radio.tx = <<>> /\ RightUpTo(nrf, held, Written(nrf, radio.reg, cmd), k)
    BY <1>1, <2>1
  <2>3. ASSUME UNCHANGED <<nrf, seen, did>>, RadioTypeOK', Kept(nrf, held, radio'.reg),
               radio'.status = radio.status, radio'.edge = radio.edge,
               radio'.tx = IF cmd = "TX_PAYLOAD" THEN <<nrf.payload>> ELSE <<>>,
               radio'.reg = Written(nrf, radio.reg, cmd)
        PROVE  NrfInd'
    <3>h. held' = held
      BY <2>1, <2>3 DEF LengthLeft
    <3>1. Off' /\ Answered'
      BY <2>1, <2>3 DEF SettingUp, Off, Answered
    <3>2. Chained(bus', cmd, StepValue(nrf', cmd), TRUE)
      BY <2>1, <2>3
    <3>3. RightUpTo(nrf', held', radio'.reg, Order[(nrf').way][(nrf').state])
      BY <2>2, <2>3, <3>h
    <3>4. ClearBehind' => MoreFrom(nrf', Order[(nrf').way][(nrf').state])
      BY <2>1, <2>3 DEF SettingUp
    <3>5. /\ Asking(nrf') /\ (nrf').state \in DOMAIN Order[(nrf').way]
          /\ (nrf').way = "send" => (nrf').payload \in NrfPayloads
          /\ nrfPc' = "status" => Len(bus') = 1
      BY <2>1, <2>3 DEF SettingUp
    <3>6. /\ cmd \in DOMAIN Order[(nrf').way] /\ cmd # "CE"
          /\ Order[(nrf').way][(nrf').state] = Order[(nrf').way][cmd] + 1
          /\ radio'.tx = IF cmd = "TX_PAYLOAD" THEN <<(nrf').payload>> ELSE <<>>
      BY <1>1, <2>3
    <3>7. SettingUp'
      BY <3>1, <3>2, <3>3, <3>4, <3>5, <3>6 DEF SettingUp
    <3>8. Slow(nrf', held') /\ Kept(nrf', held', radio'.reg)
      BY <1>4, <2>3, <3>h DEF Slow, Kept, HoldsRecv, HoldsSend, HoldsWidth
    <3> QED
      BY <1>4, <2>1, <2>3, <3>h, <3>7, <3>8 DEF NrfInd, NrfTypeOK
  <2>4. CASE cmd = "TX_PAYLOAD"
    <3>1. nrf.way = "send"
      BY <1>1, <1>2, <2>4 DEF Order
    <3>2. nrf.payload \in NrfPayloads /\ value = nrf.payload
      BY <2>4, <3>1 DEF SettingUp, StepValue
    <3>3. radio' = [radio EXCEPT !.tx = Append(@, value)] /\ UNCHANGED <<nrf, seen, did>>
      BY <2>1, <2>4 DEF WireFifo, FifoCommands
    <3> DEFINE tx == Append(radio.tx, value)
    <3>4. tx = <<nrf.payload>>
      BY <2>2, <3>2, Pairs
    <3>5. tx \in Seq(Payloads)
      BY <3>2, <3>4 DEF Payloads
    <3>6. radio' = [radio EXCEPT !.tx = tx]
      BY <3>3
    <3> HIDE DEF tx
    <3>7. /\ radio' = [reg |-> radio.reg, status |-> radio.status, rx |-> radio.rx,
                       tx |-> tx, edge |-> radio.edge]
          /\ radio'.status = radio.status /\ radio'.reg = radio.reg
          /\ radio'.rx = radio.rx /\ radio'.tx = tx /\ radio'.edge = radio.edge
      BY <1>4, <3>6 DEF RadioTypeOK
    <3>8. RadioTypeOK' /\ Kept(nrf, held, radio'.reg)
      BY <1>4, <3>5, <3>7 DEF RadioTypeOK
    <3>9. Written(nrf, radio.reg, cmd) = radio.reg
      BY <2>4 DEF Written, RegNames
    <3> QED
      BY <2>3, <2>4, <3>3, <3>4, <3>7, <3>8, <3>9
  <2>5. CASE cmd # "TX_PAYLOAD"
    <3>1. cmd \in RegNames /\ cmd \notin FifoCommands
      BY <1>1, <1>3, <2>5 DEF StepNames, RegNames, FifoCommands
    <3>2. radio' = [radio EXCEPT !.reg[cmd] = value] /\ UNCHANGED <<nrf, seen, did>>
      BY <2>1, <3>1
    <3> DEFINE reg == [radio.reg EXCEPT ![cmd] = value]
    <3>3. radio' = [radio EXCEPT !.reg = reg]
      BY <3>2
    <3>4. reg = Written(nrf, radio.reg, cmd)
      BY <3>1 DEF Written
    <3>5. /\ Registers(reg) /\ reg[cmd] = value
          /\ \A r \in RegNames \ {cmd} : reg[r] = radio.reg[r]
      <4>1. Registers(radio.reg)
        BY <1>4 DEF RadioTypeOK
      <4> HIDE DEF value
      <4> QED
        BY <3>1, <4>1 DEF Registers
    <3> HIDE DEF reg
    <3>6. /\ radio' = [reg |-> reg, status |-> radio.status, rx |-> radio.rx,
                       tx |-> radio.tx, edge |-> radio.edge]
          /\ radio'.status = radio.status /\ radio'.reg = reg
          /\ radio'.rx = radio.rx /\ radio'.tx = radio.tx /\ radio'.edge = radio.edge
      BY <1>4, <3>3 DEF RadioTypeOK
    <3>7. RadioTypeOK'
      <4>1. reg["RX_PW"] \in Nat
        <5>1. CASE cmd = "RX_PW"
          BY <1>4, <3>5, <5>1 DEF NrfTypeOK, NrfCtxs, StepValue
        <5>2. CASE cmd # "RX_PW"
          BY <1>4, <3>5, <5>2 DEF RadioTypeOK, RegNames
        <5> QED
          BY <5>1, <5>2
      <4> QED
        BY <1>4, <3>5, <3>6, <4>1 DEF RadioTypeOK
    <3>8. Kept(nrf, held, reg)
      <4>1. CASE nrf.way = "recv"
        <5>1. cmd \notin {"TX_ADDR", "RX_ADDR_P0"}
          BY <1>1, <4>1 DEF Order
        <5>2. /\ reg["TX_ADDR"] = radio.reg["TX_ADDR"]
              /\ reg["RX_ADDR_P0"] = radio.reg["RX_ADDR_P0"]
          BY <3>5, <5>1 DEF RegNames
        <5> QED
          BY <1>4, <4>1, <5>2 DEF Kept, HoldsSend
      <4>2. CASE nrf.way = "send"
        <5>1. cmd \notin {"RX_ADDR_P1", "RX_PW"}
          BY <1>1, <4>2 DEF Order
        <5>2. /\ reg["RX_ADDR_P1"] = radio.reg["RX_ADDR_P1"]
              /\ reg["RX_PW"] = radio.reg["RX_PW"]
          BY <3>5, <5>1 DEF RegNames
        <5> QED
          BY <1>4, <4>2, <5>2 DEF Kept, HoldsRecv, HoldsWidth
      <4> QED
        BY <1>2, <4>1, <4>2
    <3> QED
      BY <2>2, <2>3, <2>5, <3>2, <3>4, <3>6, <3>7, <3>8
  <2> QED
    BY <2>4, <2>5
<1>6. ASSUME NEW d \in BOOLEAN, ~done,
             bus = <<Clear(d), Of(cmd, value, "chain", FALSE)>>
      PROVE  NrfInd'
  <2> DEFINE t == Of(cmd, value, "chain", FALSE)
  <2>1. /\ UNCHANGED <<nrf, nrfPc, ce, did, held>> /\ bus' = <<Clear(TRUE), t>>
        /\ radio'.status = radio.status \ seen
        /\ radio'.reg = radio.reg /\ radio'.rx = radio.rx /\ radio'.tx = radio.tx
        /\ radio'.edge = radio.edge /\ NrfTypeOK'
    <3>1. bus = <<Clear(d), t>>
      BY <1>6
    <3> HIDE DEF t
    <3> QED
      BY <1>4, <3>1, WireClear
  <2>2. radio'.status = {}
    BY <2>1 DEF SettingUp, Answered
  <2>3. Len(bus) = 2 /\ Len(bus') = 2 /\ (bus'[2]).cb = "chain"
    <3>1. t.cb = "chain"
      BY DEF Of
    <3> HIDE DEF t
    <3> QED
      BY <1>6, <2>1, <3>1 DEF t
  <2>4. nrfPc # "status"
    BY <2>3 DEF SettingUp
  <2>5. ~ClearBehind' /\ Answered' /\ Off'
    BY <2>1, <2>2, <2>3, <2>4 DEF ClearBehind, Answered, Off, SettingUp
  <2>6. Chained(bus', cmd, StepValue(nrf', cmd), FALSE)
    BY <2>1 DEF Chained
  <2>7. SettingUp'
    <3>1. /\ Asking(nrf') /\ (nrf').state \in DOMAIN Order[(nrf').way]
          /\ (nrf').way = "send" => (nrf').payload \in NrfPayloads
      BY <2>1 DEF SettingUp
    <3>2. /\ radio'.tx = <<>> /\ cmd \in DOMAIN Order[(nrf').way]
          /\ Order[(nrf').way][(nrf').state] = Order[(nrf').way][cmd] + 1
          /\ RightUpTo(nrf', held', Written(nrf', radio'.reg, cmd), Order[(nrf').way][(nrf').state])
      BY <1>1, <1>6, <2>1
    <3> QED
      BY <1>1, <2>1, <2>4, <2>5, <2>6, <3>1, <3>2 DEF SettingUp
  <2> QED
    BY <1>4, <2>1, <2>7, StillKept DEF NrfInd
<1> QED
  BY <1>1, <1>5, <1>6 DEF Chained

LEMMA WireWaiting == NrfInd /\ Waiting /\ Wire => NrfInd'
<1> SUFFICES ASSUME NrfInd, Waiting, Wire PROVE NrfInd'
  OBVIOUS
<1>1. bus # <<>> /\ ~Head(bus).done /\ bus' = Mark(bus)
  BY DEF Wire, Mark
<1>2. ASSUME Off, bus = <<Read(FALSE)>>, OnWay(radio.status) PROVE NrfInd'
  <2>1. Head(bus) = Read(FALSE)
    BY <1>2, Pairs
  <2>2. Head(bus).cmd = "STATUS"
    BY <2>1 DEF Read, Of
  <2>3. /\ UNCHANGED <<nrf, nrfPc, ce, did, held>>
        /\ seen' = radio.status /\ radio'.status = radio.status \ seen
        /\ radio'.reg = radio.reg /\ radio'.rx = radio.rx /\ radio'.tx = radio.tx
        /\ radio'.edge = radio.edge /\ NrfTypeOK'
    BY <2>2, WireOfStatus DEF NrfInd
  <2>4. bus' = <<Read(TRUE)>>
    <3>1. Mark(<<Read(FALSE)>>) = <<Read(TRUE)>>
      BY Carried, Zenon DEF Read
    <3> QED
      BY <1>1, <1>2, <3>1
  <2>5. OnWay(seen)' /\ Off' /\ radio'.status \subseteq seen'
    BY <1>2, <2>3 DEF OnWay, Off
  <2>6. Waiting'
    BY <2>3, <2>4, <2>5 DEF Waiting, Ready
  <2> QED
    BY <2>3, <2>6, StillKept DEF NrfInd
<1>3. ASSUME Off, NoChain PROVE NrfInd'
  <2>1. PICK d \in BOOLEAN : bus = <<Clear(d)>>
    BY <1>1, <1>3 DEF NoChain
  <2>2. /\ UNCHANGED <<nrf, nrfPc, ce, did, held>> /\ bus' = <<Clear(TRUE)>>
        /\ radio'.reg = radio.reg /\ radio'.rx = radio.rx /\ radio'.tx = radio.tx
        /\ radio'.edge = radio.edge /\ NrfTypeOK'
    BY <2>1, WireClear DEF NrfInd
  <2>3. Off' /\ NoChain'
    BY <1>3, <2>2 DEF Off, NoChain
  <2>4. Waiting'
    BY <2>2, <2>3 DEF Waiting, Ready
  <2> QED
    BY <2>2, <2>4, StillKept DEF NrfInd
<1>4. bus # <<Read(TRUE)>>
  <2>1. ASSUME bus = <<Read(TRUE)>> PROVE FALSE
    <3>1. Head(bus) = Read(TRUE)
      BY <2>1, Pairs
    <3> QED
      BY <1>1, <3>1 DEF Read, Of
  <2> QED
    BY <2>1
<1> QED
  BY <1>1, <1>2, <1>3, <1>4 DEF Waiting

\* What is left of held when a transfer has ended: size is the length then.
Left(h, size) ==
    /\ h \in SUBSET {"recv", "send", "width", "delay"}
    /\ "recv" \in h => "recv" \in held
    /\ "send" \in h => "send" \in held
    /\ "delay" \in h => "delay" \in held
    /\ "width" \in h => "width" \in held /\ size = nrf.size

LEMMA LeftFacts ==
    ASSUME NrfTypeOK, LengthLeft, NEW size, size = (nrf').size,
           NEW h, h = held'
    PROVE  Left(h, size)
BY DEF NrfTypeOK, LengthLeft, Left

\* The width of the packet is read.
LEMMA WireFetching == NrfInd /\ Fetching /\ Wire => NrfInd'
<1> SUFFICES ASSUME NrfInd, Fetching, Wire PROVE NrfInd'
  OBVIOUS
<1>1. PICK done \in BOOLEAN : bus = <<Of("R_RX_PL_WID", None, "chain", done), Clear(FALSE)>>
  BY DEF Fetching
<1>2. /\ UNCHANGED <<nrfPc, ce>> /\ LengthLeft
      /\ bus' = <<Of("R_RX_PL_WID", None, "chain", TRUE), Clear(FALSE)>>
      /\ ClearComes => ClearComes'
      /\ WireFifo("R_RX_PL_WID", None)
  BY <1>1, WireCommand DEF FifoCommands
<1>3. /\ radio' = radio /\ seen' = seen /\ did' = did
      /\ nrf' = [nrf EXCEPT !.size = Head(radio.rx)]
  BY <1>2 DEF WireFifo, Fetching
<1>4. Head(radio.rx) \in Nat
  <2>1. radio.rx \in Seq(Nat) /\ radio.rx # <<>>
    BY DEF Fetching, NrfInd, NrfTypeOK, RadioTypeOK
  <2> QED
    BY <2>1
<1> DEFINE size == Head(radio.rx)
<1> HIDE DEF size
<1>5. /\ nrf' \in NrfCtxs /\ (nrf').size = size
      /\ (nrf').way = nrf.way /\ (nrf').state = nrf.state /\ (nrf').addr = nrf.addr
      /\ (nrf').payload = nrf.payload /\ (nrf').dyn = nrf.dyn
      /\ (nrf').rate = nrf.rate /\ (nrf').channel = nrf.channel
      /\ (nrf').ard = nrf.ard /\ (nrf').dirty = nrf.dirty
  BY <1>3, <1>4 DEF NrfInd, NrfTypeOK, NrfCtxs, size
<1>6. nrf.way = "recv" /\ nrf.dyn
  BY DEF Fetching
<1>h. Left(held', size)
  BY <1>2, <1>5, LeftFacts DEF NrfInd
<1>7. Ready'
  <2>1. Asking(nrf')
    BY <1>5, <1>6 DEF Fetching, Ready, Asking
  <2>2. \A r : ~Exempt(held', r) => /\ ~Exempt(held, r)
                                    /\ StepValue(nrf', r) = StepValue(nrf, r)
    BY <1>5, <1>h DEF Left, Exempt, StepValue, Config, Pipes
  <2> QED
    BY <1>3, <1>5, <2>1, <2>2 DEF Fetching, Ready
<1>8. Fetching'
  <2>1. Off' /\ Answered'
    BY <1>2, <1>3 DEF Fetching, Off, Answered
  <2> QED
    BY <1>2, <1>3, <1>5, <1>7, <2>1 DEF Fetching, size
<1>9. Slow(nrf', held') /\ Kept(nrf', held', radio'.reg)
  BY <1>3, <1>5, <1>6, <1>h DEF NrfInd, Left, Slow, Kept, HoldsSend
<1>10. held' \in SUBSET {"recv", "send", "width", "delay"}
  BY <1>h DEF Left
<1> QED
  BY <1>2, <1>3, <1>5, <1>8, <1>9, <1>10 DEF NrfInd, NrfTypeOK, RadioTypeOK

LEMMA WireFinishing == NrfInd /\ Finishing /\ Wire => NrfInd'
<1> SUFFICES ASSUME NrfInd, Finishing, Wire PROVE NrfInd'
  OBVIOUS
<1> DEFINE Value(cmd) == IF cmd = "CONFIG" THEN Config(nrf, FALSE) ELSE None
           Progress(cmd, done) ==
              /\ \/ (done \/ cmd = "CONFIG") /\ radio.tx = <<>> /\ Outcome
                 \/ /\ ~done /\ nrf.way = "send" /\ cmd = "FLUSH_TX" /\ Outcome
                 \/ /\ ~done /\ nrf.way = "recv" /\ radio.tx = <<>>
                    /\ \/ /\ cmd = "R_RX_PAYLOAD" /\ nrf.payload # None /\ radio.rx # <<>>
                          /\ nrf.dyn => Head(radio.rx) = nrf.size
                       \/ cmd = "FLUSH_RX" /\ nrf.payload = None /\ nrf.size > MaxPayload
              /\ nrf.way = "recv" \/ (nrf.way = "send" /\ cmd \in {"FLUSH_TX", "CONFIG"})
<1>1. PICK cmd \in {"R_RX_PAYLOAD", "FLUSH_RX", "FLUSH_TX", "CONFIG"}, done \in BOOLEAN :
         Chained(bus, cmd, Value(cmd), done) /\ Progress(cmd, done)
  BY DEF Finishing
<1>2. /\ nrf.state \in {"POWER_DOWN", "USER_DATA"} /\ nrfPc = "thread"
      /\ Known(nrf, held, radio.reg) /\ nrf.dirty = {} /\ Off /\ Answered
  BY DEF Finishing
<1>3. NrfTypeOK /\ RadioTypeOK /\ Slow(nrf, held)
  BY DEF NrfInd, NrfTypeOK
<1> DEFINE value == Value(cmd)
<1> HIDE DEF Progress, value
<1>4. CASE \/ bus = <<Of(cmd, value, "chain", done)>>
           \/ bus = <<Of(cmd, value, "chain", done), Clear(FALSE)>>
  <2>1. /\ ~done /\ UNCHANGED <<nrfPc, ce>> /\ LengthLeft
        /\ Chained(bus', cmd, value, TRUE)
        /\ ClearComes => ClearComes'
        /\ IF cmd \in FifoCommands THEN WireFifo(cmd, value)
           ELSE radio' = [radio EXCEPT !.reg[cmd] = value] /\ UNCHANGED <<nrf, seen, did>>
    BY <1>4, WireCommand
  <2>2. Progress(cmd, FALSE)
    <3>1. done = FALSE
      BY <2>1
    <3> QED
      BY <1>1, <3>1
  <2>3. ASSUME UNCHANGED <<nrf, seen>>, RadioTypeOK',
               radio'.status = radio.status, radio'.edge = radio.edge,
               radio'.tx = <<>>, Outcome', Known(nrf, held, radio'.reg)
        PROVE  NrfInd'
    <3>h. held' = held
      BY <2>1, <2>3 DEF LengthLeft
    <3>1. Off' /\ Answered'
      BY <1>2, <2>1, <2>3 DEF Off, Answered
    <3>2. Chained(bus', cmd, IF cmd = "CONFIG" THEN Config(nrf', FALSE) ELSE None, TRUE)
      BY <2>1, <2>3 DEF value
    <3>3. (nrf').way = "recv" \/ ((nrf').way = "send" /\ cmd \in {"FLUSH_TX", "CONFIG"})
      BY <2>2, <2>3 DEF Progress
    <3>4. Finishing'
      BY <1>2, <2>1, <2>3, <3>h, <3>1, <3>2, <3>3 DEF Finishing
    <3>5. Slow(nrf', held') /\ Kept(nrf', held', radio'.reg)
      BY <1>3, <2>3, <3>h DEF Slow, Kept, Known, HoldsRecv, HoldsSend, HoldsWidth
    <3> QED
      BY <1>3, <2>1, <2>3, <3>h, <3>4, <3>5 DEF NrfInd, NrfTypeOK
  <2>4. CASE cmd = "R_RX_PAYLOAD"
    <3>1. /\ radio' = [radio EXCEPT !.rx = SubSeq(@, 2, Len(@))] /\ UNCHANGED <<nrf, seen>>
          /\ did' = IF radio.rx # <<>> /\ (nrf.dyn => Head(radio.rx) = nrf.size)
                    THEN "read" ELSE did
      BY <2>1, <2>4 DEF WireFifo, FifoCommands
    <3>2. nrf.way = "recv" /\ radio.tx = <<>> /\ nrf.payload # None /\ did' = "read"
      BY <2>2, <2>4, <3>1 DEF Progress
    <3> DEFINE rx == SubSeq(radio.rx, 2, Len(radio.rx))
    <3>3. rx \in Seq(Nat)
      <4>1. radio.rx \in Seq(Nat)
        BY <1>3 DEF RadioTypeOK
      <4>2. PICK n \in Nat : n = Len(radio.rx)
        BY <4>1
      <4>3. \A i \in 2..n : radio.rx[i] \in Nat
        BY <4>1, <4>2
      <4> QED
        BY <4>1, <4>2, <4>3, SubSeqProperties
    <3>4. radio' = [radio EXCEPT !.rx = rx]
      BY <3>1
    <3> HIDE DEF rx
    <3>5. /\ radio' = [reg |-> radio.reg, status |-> radio.status, rx |-> rx,
                       tx |-> radio.tx, edge |-> radio.edge]
          /\ radio'.status = radio.status /\ radio'.reg = radio.reg
          /\ radio'.rx = rx /\ radio'.tx = radio.tx /\ radio'.edge = radio.edge
      BY <1>3, <3>4 DEF RadioTypeOK
    <3>6. RadioTypeOK'
      BY <1>3, <3>3, <3>5 DEF RadioTypeOK
    <3>7. Outcome'
      BY <3>1, <3>2 DEF Outcome
    <3> QED
      BY <1>2, <2>3, <3>1, <3>2, <3>5, <3>6, <3>7
  <2>5. CASE cmd = "FLUSH_RX"
    <3>1. /\ radio' = [radio EXCEPT !.rx = <<>>] /\ UNCHANGED <<nrf, seen>>
          /\ did' = "flushed"
      BY <2>1, <2>5 DEF WireFifo, FifoCommands
    <3>2. nrf.way = "recv" /\ radio.tx = <<>> /\ nrf.payload = None /\ nrf.size > MaxPayload
      BY <2>2, <2>5 DEF Progress
    <3>3. /\ radio' = [reg |-> radio.reg, status |-> radio.status, rx |-> <<>>,
                       tx |-> radio.tx, edge |-> radio.edge]
          /\ radio'.status = radio.status /\ radio'.reg = radio.reg
          /\ radio'.rx = <<>> /\ radio'.tx = radio.tx /\ radio'.edge = radio.edge
      BY <1>3, <3>1 DEF RadioTypeOK
    <3>4. RadioTypeOK'
      BY <1>3, <3>3 DEF RadioTypeOK
    <3>5. Outcome'
      BY <3>1, <3>2 DEF Outcome
    <3> QED
      BY <1>2, <2>3, <3>1, <3>2, <3>3, <3>4, <3>5
  <2>6. CASE cmd = "FLUSH_TX"
    <3>1. radio' = [radio EXCEPT !.tx = <<>>] /\ UNCHANGED <<nrf, seen, did>>
      BY <2>1, <2>6 DEF WireFifo, FifoCommands
    <3>2. Outcome
      BY <2>2, <2>6 DEF Progress
    <3>3. /\ radio' = [reg |-> radio.reg, status |-> radio.status, rx |-> radio.rx,
                       tx |-> <<>>, edge |-> radio.edge]
          /\ radio'.status = radio.status /\ radio'.reg = radio.reg
          /\ radio'.rx = radio.rx /\ radio'.tx = <<>> /\ radio'.edge = radio.edge
      BY <1>3, <3>1 DEF RadioTypeOK
    <3>4. RadioTypeOK'
      BY <1>3, <3>3 DEF RadioTypeOK
    <3>5. Outcome'
      BY <3>1, <3>2 DEF Outcome
    <3> QED
      BY <1>2, <2>3, <3>1, <3>3, <3>4, <3>5
  <2>7. CASE cmd = "CONFIG"
    <3>1. radio' = [radio EXCEPT !.reg["CONFIG"] = value] /\ UNCHANGED <<nrf, seen, did>>
      BY <2>1, <2>7 DEF FifoCommands
    <3>2. radio.tx = <<>> /\ Outcome
      BY <2>2, <2>7 DEF Progress
    <3> DEFINE reg == [radio.reg EXCEPT !["CONFIG"] = value]
    <3>3. radio' = [radio EXCEPT !.reg = reg]
      BY <3>1
    <3>4. Registers(reg) /\ \A r \in RegNames \ {"CONFIG"} : reg[r] = radio.reg[r]
      BY <1>3 DEF RadioTypeOK, Registers, RegNames
    <3> HIDE DEF reg
    <3>5. /\ radio' = [reg |-> reg, status |-> radio.status, rx |-> radio.rx,
                       tx |-> radio.tx, edge |-> radio.edge]
          /\ radio'.status = radio.status /\ radio'.reg = reg
          /\ radio'.rx = radio.rx /\ radio'.tx = radio.tx /\ radio'.edge = radio.edge
      BY <1>3, <3>3 DEF RadioTypeOK
    <3>6. reg["RX_PW"] = radio.reg["RX_PW"]
      BY <3>4 DEF RegNames
    <3>7. RadioTypeOK'
      BY <1>3, <3>4, <3>5, <3>6 DEF RadioTypeOK
    <3>8. Known(nrf, held, reg)
      BY <1>2, <3>4 DEF Known, HoldsRecv, HoldsSend, HoldsWidth, Common, RegNames
    <3>9. Outcome'
      BY <3>1, <3>2 DEF Outcome
    <3> QED
      BY <2>3, <3>1, <3>2, <3>5, <3>7, <3>8, <3>9
  <2> QED
    BY <2>4, <2>5, <2>6, <2>7
<1>5. ASSUME NEW d \in BOOLEAN, ~done,
             bus = <<Clear(d), Of(cmd, value, "chain", FALSE)>>
      PROVE  NrfInd'
  <2> DEFINE t == Of(cmd, value, "chain", FALSE)
  <2>1. /\ UNCHANGED <<nrf, nrfPc, ce, did, held>> /\ bus' = <<Clear(TRUE), t>>
        /\ radio'.status = radio.status \ seen
        /\ radio'.reg = radio.reg /\ radio'.rx = radio.rx /\ radio'.tx = radio.tx
        /\ radio'.edge = radio.edge /\ NrfTypeOK'
    <3>1. bus = <<Clear(d), t>>
      BY <1>5
    <3> HIDE DEF t
    <3> QED
      BY <1>3, <3>1, WireClear
  <2>2. radio'.status = {}
    BY <1>2, <2>1 DEF Answered
  <2>3. Answered' /\ Off' /\ Outcome' = Outcome
    BY <1>2, <2>1, <2>2 DEF Answered, Off, Outcome
  <2>4. Chained(bus', cmd, IF cmd = "CONFIG" THEN Config(nrf', FALSE) ELSE None, FALSE)
    BY <2>1 DEF Chained, value
  <2>5. Progress(cmd, FALSE)
    <3>1. done = FALSE
      BY <1>5
    <3> QED
      BY <1>1, <3>1
  <2>6. Finishing'
    BY <1>2, <2>1, <2>3, <2>4, <2>5 DEF Finishing, Progress
  <2> QED
    BY <1>3, <2>1, <2>6, StillKept DEF NrfInd
<1>6. Chained(bus, cmd, value, done)
  BY <1>1 DEF value
<1> QED
  BY <1>4, <1>5, <1>6 DEF Chained

LEMMA WireStep == NrfInd /\ Wire => NrfInd'
BY WireIdle, WireSettingUp, WireWaiting, WireFetching, WireFinishing DEF NrfInd

-----------------------------------------------------------------------------
(* The end of a transfer                                                   *)

\* The context with the fields that the end of a request changes.
Moved(ctx, state, payload, size) ==
    [ctx EXCEPT !.state = state, !.payload = payload, !.size = size]

\* What was written for a request is known to the next ones.
LEMMA ReadyKnown ==
    ASSUME Ready, nrf \in NrfCtxs, Kept(nrf, held, radio.reg), Slow(nrf, held),
           NEW state, NEW payload, NEW size, NEW h, Left(h, size),
           NEW new, new = Moved(nrf, state, payload, size)
    PROVE  Known(new, h, radio.reg) /\ new.dirty = {} /\ Slow(new, h)
<1>1. /\ new.size = size /\ new.way = nrf.way /\ new.addr = nrf.addr /\ new.dyn = nrf.dyn
      /\ new.rate = nrf.rate /\ new.channel = nrf.channel
      /\ new.ard = nrf.ard /\ new.dirty = nrf.dirty
  BY DEF Moved, NrfCtxs
<1>2. /\ Asking(nrf) /\ nrf.dirty = {}
      /\ \A r \in DOMAIN Order[nrf.way] :
            Exempt(held, r) \/ radio.reg[r] = StepValue(nrf, r)
  BY DEF Ready
<1>3. nrf.way \in {"recv", "send"}
  BY <1>2 DEF Asking
<1>4. ASSUME NEW r \in Common PROVE radio.reg[r] = StepValue(new, r)
  <2>1. r \in DOMAIN Order[nrf.way] /\ ~Exempt(held, r)
    BY <1>3 DEF Common, Order, Exempt
  <2>2. StepValue(new, r) = StepValue(nrf, r)
    BY <1>1 DEF Common, StepValue, Pipes
  <2> QED
    BY <1>2, <2>1, <2>2
<1>5. /\ HoldsRecv(nrf, held, radio.reg) /\ HoldsSend(nrf, held, radio.reg)
      /\ HoldsWidth(nrf, held, radio.reg)
  <2>1. CASE nrf.way = "recv"
    <3>1. /\ "RX_ADDR_P1" \in DOMAIN Order[nrf.way] /\ "RX_PW" \in DOMAIN Order[nrf.way]
          /\ StepValue(nrf, "RX_ADDR_P1") = nrf.addr /\ StepValue(nrf, "RX_PW") = nrf.size
      BY <2>1 DEF Order, StepValue
    <3> QED
      BY <1>2, <2>1, <3>1 DEF Kept, HoldsRecv, HoldsSend, HoldsWidth, Exempt
  <2>2. CASE nrf.way = "send"
    <3>1. /\ "TX_ADDR" \in DOMAIN Order[nrf.way] /\ "RX_ADDR_P0" \in DOMAIN Order[nrf.way]
          /\ StepValue(nrf, "TX_ADDR") = nrf.addr /\ StepValue(nrf, "RX_ADDR_P0") = nrf.addr
      BY <2>2 DEF Order, StepValue
    <3> QED
      BY <1>2, <2>2, <3>1 DEF Kept, HoldsRecv, HoldsSend, HoldsWidth, Exempt
  <2> QED
    BY <1>3, <2>1, <2>2
<1>6. Slow(new, h)
  BY <1>1 DEF Slow, Left
<1>7. /\ HoldsRecv(new, h, radio.reg) /\ HoldsSend(new, h, radio.reg)
      /\ HoldsWidth(new, h, radio.reg)
  BY <1>1, <1>5 DEF HoldsRecv, HoldsSend, HoldsWidth, Left
<1> QED
  BY <1>1, <1>2, <1>4, <1>6, <1>7 DEF Known

\* What is known is also kept.
LEMMA KnownKept ==
    ASSUME NEW ctx, NEW h, NEW reg, Known(ctx, h, reg) PROVE Kept(ctx, h, reg)
BY DEF Known, Kept

\* The clearing write is through: its bits are gone already.
LEMMA DoneClear ==
    ASSUME NrfTypeOK, TransferDone, NEW d \in BOOLEAN, NEW b,
           bus = <<Clear(d)>> \/ bus = <<Clear(d), b>>
    PROVE  /\ d /\ nrfPc = "thread" /\ UNCHANGED <<nrf, nrfPc, seen, ce, radio, did, held>>
           /\ bus = <<Clear(d)>> => bus' = <<>> /\ ~ClearComes
           /\ bus = <<Clear(d), b>> => bus' = <<b>> /\ (b.cb # "none" => ~ClearComes)
<1>1. Head(bus) = Clear(d)
  BY Pairs
<1>2. d /\ Head(bus).cb = "none"
  BY <1>1 DEF TransferDone, Clear, Of
<1>3. bus' = Tail(bus) /\ nrfPc = "thread" /\ UNCHANGED <<nrf, nrfPc, seen, ce, radio, did, held>>
  BY <1>2 DEF TransferDone, LengthLeft
<1> DEFINE c == Clear(d)
<1>4. c.done
  BY <1>2 DEF Clear, Of
<1> HIDE DEF c
<1>5. bus = <<c>> => bus' = <<>> /\ ~ClearComes
  <2> SUFFICES ASSUME bus = <<c>> PROVE bus' = <<>> /\ ~ClearComes
    OBVIOUS
  <2>1. Len(bus) = 1 /\ bus[1] = c
    OBVIOUS
  <2> QED
    BY <1>3, <1>4, <2>1, Pairs DEF ClearComes
<1>6. bus = <<c, b>> => bus' = <<b>> /\ (b.cb # "none" => ~ClearComes)
  <2> SUFFICES ASSUME bus = <<c, b>> PROVE bus' = <<b>> /\ (b.cb # "none" => ~ClearComes)
    OBVIOUS
  <2>1. Len(bus) = 2 /\ bus[1] = c /\ bus[2] = b
    OBVIOUS
  <2>2. ASSUME ClearComes PROVE b.cb = "none"
    BY <1>3, <1>4, <2>1, <2>2 DEF ClearComes
  <2> QED
    BY <1>3, <2>2, Pairs
<1> QED
  BY <1>2, <1>3, <1>5, <1>6 DEF c

\* A command of the chain is through: Handle goes on with the transfers left.
LEMMA DoneCommand ==
    ASSUME NrfTypeOK, TransferDone, NEW cmd, NEW value, NEW done \in BOOLEAN,
           Answered,
           \/ bus = <<Of(cmd, value, "chain", done)>>
           \/ bus = <<Of(cmd, value, "chain", done), Clear(FALSE)>>
    PROVE  \E queue :
              /\ done /\ nrfPc = "thread" /\ Handle(nrf, queue, <<>>)
              /\ UNCHANGED <<seen, radio, did>> /\ LengthLeft
              /\ \/ queue = <<>> /\ radio.status = {}
                 \/ queue = <<Clear(FALSE)>> /\ ClearBehind
<1> DEFINE t == Of(cmd, value, "chain", done)
           c == Clear(FALSE)
<1>1. t.done = done /\ t.cb = "chain" /\ c.cb = "none"
  BY DEF Of, Clear
<1> HIDE DEF t, c
<1>2. bus = <<t>> \/ bus = <<t, c>>
  BY DEF t, c
<1>3. Head(bus) = t
  BY <1>2, Pairs
<1>4. done /\ nrfPc = "thread" /\ Handle(nrf, Tail(bus), <<>>) /\ LengthLeft
      /\ UNCHANGED <<seen, radio, did>>
  BY <1>1, <1>3 DEF TransferDone
<1>5. CASE bus = <<t>>
  <2>1. Len(bus) = 1 /\ bus[1] = t /\ Tail(bus) = <<>>
    BY <1>5, Pairs
  <2>2. ~ClearComes
    BY <1>1, <1>4, <2>1 DEF ClearComes
  <2>3. radio.status = {}
    BY <2>2 DEF Answered
  <2>4. Handle(nrf, <<>>, <<>>)
    BY <1>4, <2>1, Zenon
  <2> WITNESS <<>>
  <2> QED
    BY <1>4, <2>3, <2>4
<1>6. CASE bus = <<t, c>>
  <2>1. Len(bus) = 2 /\ bus[2] = c /\ Tail(bus) = <<c>>
    BY <1>6, Pairs
  <2>2. ClearBehind
    BY <1>1, <2>1 DEF ClearBehind
  <2> QED
    BY <1>4, <2>1, <2>2 DEF c
<1> QED
  BY <1>2, <1>5, <1>6

LEMMA DoneIdle == NrfInd /\ Idle /\ TransferDone => NrfInd'
<1> SUFFICES ASSUME NrfInd, Idle, TransferDone PROVE NrfInd'
  OBVIOUS
<1>1. PICK d \in BOOLEAN : bus = <<Clear(d)>>
  BY DEF Idle, NoChain, TransferDone
<1>2. /\ nrfPc = "thread" /\ UNCHANGED <<nrf, nrfPc, seen, ce, radio, did, held>>
      /\ bus' = <<>> /\ ~ClearComes
  BY <1>1, DoneClear DEF NrfInd
<1>3. Answered'
  BY <1>2 DEF Idle, Answered
<1>4. Idle'
  BY <1>2, <1>3 DEF Idle, NoChain, Off, Outcome
<1> QED
  BY <1>2, <1>4, StillKept DEF NrfInd, NrfTypeOK, RadioTypeOK

LEMMA ChainLetsLoose ==
    ASSUME NEW ctx, NEW queue, NEW after,
           ctx.way \in {"recv", "send"}, ctx.state \in DOMAIN Order[ctx.way],
           Chain(ctx, queue, after), ~MoreFrom(ctx, Order[ctx.way][ctx.state])
    PROVE  /\ nrf' = LetLoose(ctx) /\ bus' = queue \o after
           /\ ce' \in BOOLEAN /\ ce' /\ nrfPc' = nrfPc
<1>1. PICK cmd \in DOMAIN Order[ctx.way] : SkipsTo(ctx, queue, after, cmd)
  BY ChainFacts
<1>2. Order[ctx.way][cmd] >= Order[ctx.way][ctx.state] /\ Needed(ctx, cmd)
  BY <1>1 DEF SkipsTo
<1>3. cmd = "CE"
  BY <1>2 DEF MoreFrom
<1>4. ce' = (ce \/ TRUE)
  BY <1>1, <1>3 DEF SkipsTo
<1> QED
  BY <1>1, <1>3, <1>4 DEF SkipsTo

\* A step of the chain changes no length.
LEMMA ChainKeepsSize ==
    ASSUME NEW ctx \in NrfCtxs, NEW queue, NEW after,
           ctx.way \in {"recv", "send"}, ctx.state \in DOMAIN Order[ctx.way],
           Chain(ctx, queue, after)
    PROVE  (nrf').size = ctx.size
<1>1. PICK cmd \in DOMAIN Order[ctx.way] : SkipsTo(ctx, queue, after, cmd)
  BY ChainFacts
<1>2. CASE cmd = "CE"
  BY <1>1, <1>2 DEF SkipsTo, LetLoose, NrfCtxs
<1>3. CASE cmd # "CE"
  <2>1. PICK next \in DOMAIN Order[ctx.way] : nrf' = Stepped(ctx, cmd, next)
    BY <1>1, <1>3 DEF SkipsTo
  <2>2. cmd \in StepNames /\ next \in StepNames
    BY OrderTypes
  <2> QED
    BY <2>1, <2>2, PreparedFacts
<1> QED
  BY <1>2, <1>3

\* All is written, and the radio is let loose.
LEMMA DoneSettingUpAll ==
    ASSUME NrfInd, SettingUp, Chain(nrf, <<>>, <<>>), nrfPc = "thread",
           UNCHANGED <<seen, radio, did, held>>, radio.status = {},
           NEW cmd \in DOMAIN Order[nrf.way], cmd # "CE",
           Order[nrf.way][nrf.state] = Order[nrf.way][cmd] + 1,
           radio.tx = IF cmd = "TX_PAYLOAD" THEN <<nrf.payload>> ELSE <<>>,
           RightUpTo(nrf, held, radio.reg, Order[nrf.way][nrf.state]),
           ~MoreFrom(nrf, Order[nrf.way][nrf.state])
    PROVE  NrfInd'
<1> DEFINE P == Order[nrf.way]
           k == P[nrf.state]
<1>1. nrf.way \in {"recv", "send"} /\ nrf.state \in DOMAIN P /\ Asking(nrf)
  BY DEF SettingUp, Asking
<1>2. \A r \in DOMAIN P : P[r] \in Nat \ {0}
  BY <1>1, OrderTypes
<1>4. PICK c, queue, after : c = nrf /\ queue = <<>> /\ after = <<>>
  OBVIOUS
<1>5. /\ nrf' = LetLoose(nrf) /\ bus' = <<>>
      /\ ce' \in BOOLEAN /\ ce' /\ nrfPc' = nrfPc
  <2>1. /\ c \in NrfCtxs /\ c.way \in {"recv", "send"} /\ c.state \in DOMAIN Order[c.way]
        /\ Chain(c, queue, after)
        /\ ~MoreFrom(c, Order[c.way][c.state])
    BY <1>1, <1>4 DEF NrfInd, NrfTypeOK
  <2>2. /\ nrf' = LetLoose(c) /\ bus' = queue \o after
        /\ ce' \in BOOLEAN /\ ce' /\ nrfPc' = nrfPc
    BY <1>4, <2>1, ChainLetsLoose
  <2>3. <<>> \o <<>> = <<>>
    BY EmptySeq, ConcatEmptySeq
  <2> QED
    BY <1>4, <2>2, <2>3
<1>6. nrf \in NrfCtxs /\ NrfTypeOK /\ Slow(nrf, held) /\ Kept(nrf, held, radio.reg)
  BY DEF NrfInd, NrfTypeOK
<1>7. /\ nrf.dirty = {}
      /\ \A r \in DOMAIN P : Exempt(held, r) \/ radio.reg[r] = StepValue(nrf, r)
  <2>1. \A r \in DOMAIN P : r # "CE" /\ P[r] >= k => ~Needed(nrf, r)
    BY DEF MoreFrom
  <2>2. k \in Nat
    BY <1>1, <1>2
  <2>3. PICK old, h, reg, n : old = nrf /\ h = held /\ reg = radio.reg /\ n = k
    OBVIOUS
  <2>4. /\ old \in NrfCtxs /\ Asking(old) /\ n \in Nat /\ RightUpTo(old, h, reg, n)
        /\ \A r \in DOMAIN Order[old.way] : r # "CE" /\ Order[old.way][r] >= n => ~Needed(old, r)
    BY <1>1, <1>6, <2>1, <2>2, <2>3
  <2>5. /\ old.dirty = {}
        /\ \A r \in DOMAIN Order[old.way] : Exempt(h, r) \/ reg[r] = StepValue(old, r)
    BY <2>4, AllWritten
  <2> QED
    BY <2>3, <2>5
<1>8. /\ nrf' \in NrfCtxs /\ (nrf').state = "WAITING"
      /\ (nrf').way = nrf.way /\ (nrf').addr = nrf.addr /\ (nrf').size = nrf.size
      /\ (nrf').payload = nrf.payload /\ (nrf').dyn = nrf.dyn
      /\ (nrf').rate = nrf.rate /\ (nrf').channel = nrf.channel
      /\ (nrf').ard = nrf.ard /\ (nrf').dirty = nrf.dirty
  BY <1>5, <1>6 DEF NrfCtxs, LetLoose
<1>9. Ready'
  <2>1. Asking(nrf')
    BY <1>1, <1>8 DEF Asking
  <2>2. \A r : StepValue(nrf', r) = StepValue(nrf, r)
    BY <1>8 DEF StepValue, Config, Pipes
  <2> QED
    BY <1>7, <1>8, <2>1, <2>2 DEF Ready
<1>10. nrf.way = "send" => cmd = "TX_PAYLOAD" /\ nrf.payload \in NrfPayloads
  <2> SUFFICES ASSUME nrf.way = "send" PROVE cmd = "TX_PAYLOAD" /\ nrf.payload \in NrfPayloads
    OBVIOUS
  <2>1. nrf.payload \in NrfPayloads
    BY DEF SettingUp
  <2>2. ~(P["TX_PAYLOAD"] >= k)
    <3>1. "TX_PAYLOAD" \in DOMAIN P /\ Needed(nrf, "TX_PAYLOAD")
      BY DEF Order, Needed, DirtyBit
    <3> QED
      BY <3>1 DEF MoreFrom
  <2>3. cmd = "TX_PAYLOAD"
    BY <1>1, <2>2 DEF Order
  <2> QED
    BY <2>1, <2>3
<1>11. nrf.way = "recv" => cmd # "TX_PAYLOAD"
  BY DEF Order
<1>12. OnWay(radio.status)'
  BY <1>1, <1>8, <1>10, <1>11 DEF OnWay
<1>13. Waiting'
  BY <1>5, <1>8, <1>9, <1>12 DEF Waiting
<1>14. NrfTypeOK' /\ Slow(nrf', held') /\ Kept(nrf', held', radio'.reg)
  BY <1>5, <1>6, <1>8
  DEF NrfTypeOK, RadioTypeOK, Slow, Kept, HoldsRecv, HoldsSend, HoldsWidth
<1> QED
  BY <1>13, <1>14 DEF NrfInd

LEMMA DoneSettingUp == NrfInd /\ SettingUp /\ TransferDone => NrfInd'
<1> SUFFICES ASSUME NrfInd, SettingUp, TransferDone PROVE NrfInd'
  OBVIOUS
<1>1. PICK cmd \in DOMAIN Order[nrf.way], done \in BOOLEAN :
          /\ cmd # "CE" /\ Order[nrf.way][nrf.state] = Order[nrf.way][cmd] + 1
          /\ Chained(bus, cmd, StepValue(nrf, cmd), done)
          /\ radio.tx = IF done /\ cmd = "TX_PAYLOAD" THEN <<nrf.payload>> ELSE <<>>
          /\ RightUpTo(nrf, held, IF done THEN radio.reg ELSE Written(nrf, radio.reg, cmd),
                       Order[nrf.way][nrf.state])
  BY DEF SettingUp
<1>2. /\ nrf.way \in {"recv", "send"} /\ Asking(nrf) /\ nrf.state \in DOMAIN Order[nrf.way]
      /\ nrf.way = "send" => nrf.payload \in NrfPayloads
      /\ Off /\ Answered /\ radio.status \subseteq seen
      /\ ClearBehind => MoreFrom(nrf, Order[nrf.way][nrf.state])
  BY DEF SettingUp, Asking, Answered
<1>3. NrfTypeOK /\ nrf \in NrfCtxs /\ Slow(nrf, held) /\ Kept(nrf, held, radio.reg)
  BY DEF NrfInd, NrfTypeOK
<1> DEFINE value == StepValue(nrf, cmd)
           k == Order[nrf.way][nrf.state]
<1>4. CASE \/ bus = <<Of(cmd, value, "chain", done)>>
           \/ bus = <<Of(cmd, value, "chain", done), Clear(FALSE)>>
  <2>1. PICK queue :
           /\ done /\ nrfPc = "thread" /\ Handle(nrf, queue, <<>>)
           /\ UNCHANGED <<seen, radio, did>> /\ LengthLeft
           /\ \/ queue = <<>> /\ radio.status = {}
              \/ queue = <<Clear(FALSE)>> /\ ClearBehind
    <3> HIDE DEF value
    <3> QED
      BY <1>2, <1>3, <1>4, DoneCommand
  <2>2. Chain(nrf, queue, <<>>)
    <3>1. nrf.state \in StepNames
      BY <1>2, OrderTypes
    <3> QED
      BY <2>1, <3>1 DEF Handle, StepNames
  <2>3. RightUpTo(nrf, held, radio.reg, k)
    BY <1>1, <2>1
  <2>h. held' = held /\ held \in SUBSET {"recv", "send", "width", "delay"}
    <3>1. (nrf').size = nrf.size
      <4>1. PICK old : old = nrf
        OBVIOUS
      <4>2. /\ old \in NrfCtxs /\ old.way \in {"recv", "send"}
            /\ old.state \in DOMAIN Order[old.way] /\ Chain(old, queue, <<>>)
        BY <1>2, <1>3, <2>2, <4>1
      <4> QED
        BY <4>1, <4>2, ChainKeepsSize
    <3> QED
      BY <1>3, <2>1, <3>1 DEF LengthLeft, NrfTypeOK
  <2>4. CASE MoreFrom(nrf, k)
    <3>1. cmd # "TX_PAYLOAD"
      <4> SUFFICES ASSUME cmd = "TX_PAYLOAD" PROVE FALSE
        OBVIOUS
      <4>1. nrf.way = "send" /\ k = 10
        BY <1>1, <1>2 DEF Order
      <4>2. PICK r \in DOMAIN Order[nrf.way] : r # "CE" /\ Order[nrf.way][r] >= k
        BY <2>4 DEF MoreFrom
      <4> QED
        BY <4>1, <4>2 DEF Order
    <3>2. radio.tx = <<>>
      BY <1>1, <3>1
    <3>3. queue = <<>> \/ \E d \in BOOLEAN : queue = <<Clear(d)>>
      BY <2>1
    <3>4. radio.status = {} \/ nrfPc = "status" \/ queue = <<Clear(FALSE)>>
      BY <2>1
    <3>5. nrfPc # "status"
      BY <2>1
    <3>6. PICK c, h : c = nrf /\ h = held
      OBVIOUS
    <3>7. /\ c \in NrfCtxs /\ Asking(c) /\ c.state \in DOMAIN Order[c.way]
          /\ h \in SUBSET {"recv", "send", "width", "delay"} /\ held' = h
          /\ Slow(c, h) /\ Kept(c, h, radio.reg)
          /\ RightUpTo(c, h, radio.reg, Order[c.way][c.state])
          /\ c.way = "send" => c.payload \in NrfPayloads
          /\ MoreFrom(c, Order[c.way][c.state]) /\ Chain(c, queue, <<>>)
      BY <1>2, <1>3, <2>2, <2>3, <2>h, <2>4, <3>6
    <3> QED
      BY <1>2, <1>3, <2>1, <3>2, <3>3, <3>4, <3>5, <3>7, ChainWrites
  <2>5. CASE ~MoreFrom(nrf, k)
    <3>1. queue = <<>> /\ radio.status = {}
      BY <1>2, <2>1, <2>5
    <3>2. Chain(nrf, <<>>, <<>>)
      BY <2>2, <3>1, Zenon
    <3>3. radio.tx = IF cmd = "TX_PAYLOAD" THEN <<nrf.payload>> ELSE <<>>
      BY <1>1, <2>1
    <3> QED
      BY <1>1, <2>1, <2>3, <2>h, <2>5, <3>1, <3>2, <3>3, DoneSettingUpAll
  <2> QED
    BY <2>4, <2>5
<1>5. ASSUME NEW d \in BOOLEAN, ~done,
             bus = <<Clear(d), Of(cmd, value, "chain", FALSE)>>
      PROVE  NrfInd'
  <2> DEFINE t == Of(cmd, value, "chain", FALSE)
  <2>1. t.cb = "chain"
    BY DEF Of
  <2>2. /\ nrfPc = "thread" /\ UNCHANGED <<nrf, nrfPc, seen, ce, radio, did, held>>
        /\ bus' = <<t>> /\ ~ClearComes
    <3>1. bus = <<Clear(d), t>>
      BY <1>5
    <3> HIDE DEF t
    <3> QED
      BY <1>3, <2>1, <3>1, DoneClear
  <2>3. Answered' /\ Off'
    BY <1>2, <2>2 DEF Answered, Off
  <2>4. ~ClearBehind'
    <3>1. Len(bus') = 1
      BY <2>2
    <3> QED
      BY <2>2, <3>1 DEF ClearBehind
  <2>5. Chained(bus', cmd, StepValue(nrf', cmd), FALSE)
    BY <2>2 DEF Chained
  <2>6. SettingUp'
    <3>1. /\ Asking(nrf') /\ (nrf').state \in DOMAIN Order[(nrf').way]
          /\ (nrf').way = "send" => (nrf').payload \in NrfPayloads
      BY <1>2, <2>2
    <3>2. /\ radio'.tx = <<>> /\ cmd \in DOMAIN Order[(nrf').way]
          /\ Order[(nrf').way][(nrf').state] = Order[(nrf').way][cmd] + 1
          /\ RightUpTo(nrf', held', Written(nrf', radio'.reg, cmd), Order[(nrf').way][(nrf').state])
      BY <1>1, <1>5, <2>2
    <3> QED
      BY <1>1, <2>2, <2>3, <2>4, <2>5, <3>1, <3>2 DEF SettingUp
  <2> QED
    BY <1>3, <2>2, <2>6, StillKept DEF NrfInd, NrfTypeOK, RadioTypeOK
<1> QED
  BY <1>1, <1>4, <1>5 DEF Chained

\* The packet is fetched, or thrown away if its width is out of range.
LEMMA DoneFetching == NrfInd /\ Fetching /\ TransferDone => NrfInd'
<1> SUFFICES ASSUME NrfInd, Fetching, TransferDone PROVE NrfInd'
  OBVIOUS
<1>1. PICK done \in BOOLEAN :
         /\ bus = <<Of("R_RX_PL_WID", None, "chain", done), Clear(FALSE)>>
         /\ done => nrf.size = Head(radio.rx)
  BY DEF Fetching
<1>2. /\ NrfTypeOK /\ nrf \in NrfCtxs /\ Slow(nrf, held) /\ Kept(nrf, held, radio.reg)
      /\ nrf.state = "GET_PAYLOAD" /\ nrf.way = "recv" /\ nrf.dyn /\ Ready
      /\ Off /\ Answered /\ radio.status \subseteq seen /\ radio.tx = <<>> /\ radio.rx # <<>>
  BY DEF NrfInd, NrfTypeOK, Fetching, Answered
<1>3. PICK queue :
         /\ done /\ nrfPc = "thread" /\ Handle(nrf, queue, <<>>)
         /\ UNCHANGED <<seen, radio, did>> /\ LengthLeft
         /\ \/ queue = <<>> /\ radio.status = {}
            \/ queue = <<Clear(FALSE)>> /\ ClearBehind
  BY <1>1, <1>2, DoneCommand
<1> DEFINE payload == IF Discards(nrf) THEN None ELSE nrf.payload
           cmd == IF Discards(nrf) THEN "FLUSH_RX" ELSE "R_RX_PAYLOAD"
           t == Of(cmd, None, "chain", FALSE)
<1>4. /\ nrf' = [nrf EXCEPT !.state = LastState(nrf), !.payload = payload]
      /\ bus' = queue \o <<t>> \o <<>> /\ UNCHANGED <<nrfPc, ce>>
  <2>1. /\ nrf' = [nrf EXCEPT !.state = Command(nrf)[1],
                              !.payload = IF Discards(nrf) THEN None ELSE @]
        /\ bus' = queue \o <<Command(nrf)[2]>> \o <<>> /\ UNCHANGED <<nrfPc, ce>>
    BY <1>2, <1>3 DEF Handle, StepNames
  <2>2. Command(nrf) = <<LastState(nrf), t>>
    BY <1>2, Transfers DEF Command
  <2> HIDE DEF t
  <2>3. Command(nrf)[1] = LastState(nrf) /\ Command(nrf)[2] = t
    BY <2>2
  <2> QED
    BY <2>1, <2>3
<1>5. nrf' = Moved(nrf, LastState(nrf), payload, nrf.size)
  BY <1>2, <1>4 DEF Moved, NrfCtxs
<1>6. nrf.payload \in Payloads /\ nrf.payload # None /\ nrf.size \in Nat
  BY <1>2 DEF NrfCtxs, Ready, Asking
<1>7. LastState(nrf) \in {"POWER_DOWN", "USER_DATA"} /\ payload \in Payloads
  BY <1>6 DEF LastState, Payloads
<1>8. PICK new : new = nrf'
  OBVIOUS
<1>9. /\ new.state = LastState(nrf) /\ new.payload = payload /\ new.size = nrf.size
      /\ new.way = "recv" /\ new.dyn = nrf.dyn /\ new \in NrfCtxs
  <2> HIDE DEF payload
  <2> QED
    BY <1>2, <1>5, <1>6, <1>7, <1>8 DEF Moved, NrfCtxs
<1>10. nrf.size = Head(radio.rx)
  BY <1>1, <1>3
<1>11. PICK h : h = held'
  OBVIOUS
<1>h. Left(h, nrf.size)
  <2>1. nrf.size = (nrf').size
    BY <1>8, <1>9
  <2> QED
    BY <1>2, <1>3, <1>11, <2>1, LeftFacts
<1>12. Known(new, h, radio.reg) /\ new.dirty = {} /\ Slow(new, h)
  <2> HIDE DEF payload
  <2> QED
    BY <1>2, <1>5, <1>8, <1>h, ReadyKnown
<1>13. Chained(bus', cmd, None, FALSE) /\ (radio.status = {} \/ ClearComes')
  <2>1. CASE queue = <<>> /\ radio.status = {}
    <3>1. bus' = <<t>>
      <4> HIDE DEF t
      <4>1. <<>> \o <<t>> = <<t>> /\ <<t>> \o <<>> = <<t>>
        BY Pairs
      <4> QED
        BY <1>4, <2>1, <4>1
    <3> QED
      BY <2>1, <3>1 DEF Chained
  <2>2. CASE queue = <<Clear(FALSE)>>
    <3>1. bus' = <<Clear(FALSE), t>>
      <4> DEFINE c == Clear(FALSE)
      <4> HIDE DEF t, c
      <4>1. <<c>> \o <<t>> \o <<>> = <<c, t>>
        BY Pairs
      <4> QED
        BY <1>4, <2>2, <4>1 DEF c
    <3>2. Len(bus') = 2 /\ bus'[1] = Clear(FALSE)
      BY <3>1
    <3>3. ClearComes'
      BY <3>2 DEF ClearComes, Clear, Of
    <3> QED
      BY <3>1, <3>3 DEF Chained
  <2> QED
    BY <1>3, <2>1, <2>2
<1>14. Answered' /\ Off'
  BY <1>2, <1>3, <1>4, <1>13 DEF Answered, Off
<1>15. /\ cmd = "R_RX_PAYLOAD" => payload # None
       /\ cmd = "FLUSH_RX" => payload = None /\ nrf.size > MaxPayload
       /\ cmd \in {"R_RX_PAYLOAD", "FLUSH_RX"}
  BY <1>6 DEF Discards
<1>16. Finishing'
  <2> HIDE DEF cmd, payload
  <2> QED
    BY <1>2, <1>3, <1>4, <1>7, <1>8, <1>9, <1>10, <1>11, <1>12, <1>13, <1>14, <1>15 DEF Finishing
<1>17. h \in SUBSET {"recv", "send", "width", "delay"}
  BY <1>h DEF Left
<1> QED
  BY <1>2, <1>3, <1>4, <1>8, <1>9, <1>11, <1>12, <1>16, <1>17, KnownKept
  DEF NrfInd, NrfTypeOK, RadioTypeOK

\* The radio is switched off to save power, or the user is told.
LEMMA DoneFinishing == NrfInd /\ Finishing /\ TransferDone => NrfInd'
<1> SUFFICES ASSUME NrfInd, Finishing, TransferDone PROVE NrfInd'
  OBVIOUS
<1> DEFINE Value(cmd) == IF cmd = "CONFIG" THEN Config(nrf, FALSE) ELSE None
           Progress(cmd, done) ==
              /\ \/ (done \/ cmd = "CONFIG") /\ radio.tx = <<>> /\ Outcome
                 \/ /\ ~done /\ nrf.way = "send" /\ cmd = "FLUSH_TX" /\ Outcome
                 \/ /\ ~done /\ nrf.way = "recv" /\ radio.tx = <<>>
                    /\ \/ /\ cmd = "R_RX_PAYLOAD" /\ nrf.payload # None /\ radio.rx # <<>>
                          /\ nrf.dyn => Head(radio.rx) = nrf.size
                       \/ cmd = "FLUSH_RX" /\ nrf.payload = None /\ nrf.size > MaxPayload
              /\ nrf.way = "recv" \/ (nrf.way = "send" /\ cmd \in {"FLUSH_TX", "CONFIG"})
<1>1. PICK cmd \in {"R_RX_PAYLOAD", "FLUSH_RX", "FLUSH_TX", "CONFIG"}, done \in BOOLEAN :
         Chained(bus, cmd, Value(cmd), done) /\ Progress(cmd, done)
  BY DEF Finishing
<1>2. /\ nrf.state \in {"POWER_DOWN", "USER_DATA"} /\ nrfPc = "thread"
      /\ Known(nrf, held, radio.reg) /\ nrf.dirty = {} /\ Off /\ Answered
  BY DEF Finishing
<1>3. NrfTypeOK /\ nrf \in NrfCtxs /\ Slow(nrf, held)
      /\ held \in SUBSET {"recv", "send", "width", "delay"}
  BY DEF NrfInd, NrfTypeOK
<1> DEFINE value == Value(cmd)
<1> HIDE DEF Progress, value
<1>4. CASE \/ bus = <<Of(cmd, value, "chain", done)>>
           \/ bus = <<Of(cmd, value, "chain", done), Clear(FALSE)>>
  <2>1. PICK queue :
           /\ done /\ nrfPc = "thread" /\ Handle(nrf, queue, <<>>)
           /\ UNCHANGED <<seen, radio, did>> /\ LengthLeft
           /\ \/ queue = <<>> /\ radio.status = {}
              \/ queue = <<Clear(FALSE)>> /\ ClearBehind
    BY <1>2, <1>3, <1>4, DoneCommand
  <2>2. radio.tx = <<>> /\ Outcome
    BY <1>1, <2>1 DEF Progress
  <2>3. CASE nrf.state = "USER_DATA"
    <3>1. nrf' = nrf /\ bus' = queue /\ nrfPc' = "chain" /\ ce' = ce /\ held' = held
      BY <2>1, <2>3 DEF Handle, StepNames, LengthLeft
    <3>2. NoChain'
      BY <2>1, <3>1 DEF NoChain
    <3>3. radio.status = {} \/ ClearComes'
      <4>1. ASSUME queue = <<Clear(FALSE)>> PROVE ClearComes'
        <5>1. Len(bus') = 1 /\ bus'[1] = Clear(FALSE)
          BY <3>1, <4>1
        <5> QED
          BY <5>1 DEF ClearComes, Clear, Of
      <4> QED
        BY <2>1, <4>1
    <3>4. Idle'
      BY <1>2, <2>1, <2>2, <2>3, <3>1, <3>2, <3>3 DEF Idle, Off, Answered, Outcome
    <3> QED
      BY <1>3, <2>1, <3>1, <3>4, StillKept DEF NrfInd, NrfTypeOK, RadioTypeOK
  <2>4. CASE nrf.state = "POWER_DOWN"
    <3> DEFINE t == Of("CONFIG", Config(nrf, FALSE), "chain", FALSE)
    <3>1. /\ nrf' = [nrf EXCEPT !.state = "USER_DATA"]
          /\ bus' = queue \o <<t>> \o <<>> /\ UNCHANGED <<nrfPc, ce>>
      <4>1. /\ nrf' = [nrf EXCEPT !.state = Command(nrf)[1],
                                  !.payload = IF nrf.state = "GET_PAYLOAD" /\ Discards(nrf)
                                              THEN None ELSE @]
            /\ bus' = queue \o <<Command(nrf)[2]>> \o <<>> /\ UNCHANGED <<nrfPc, ce>>
        BY <2>1, <2>4 DEF Handle, StepNames
      <4>2. Command(nrf) = <<"USER_DATA", t>>
        BY <2>4, Transfers DEF Command
      <4> HIDE DEF t
      <4>3. Command(nrf)[1] = "USER_DATA" /\ Command(nrf)[2] = t
        BY <4>2
      <4> QED
        BY <1>3, <2>4, <4>1, <4>3 DEF NrfCtxs
    <3>2. /\ nrf' \in NrfCtxs /\ (nrf').state = "USER_DATA"
          /\ (nrf').way = nrf.way /\ (nrf').addr = nrf.addr /\ (nrf').size = nrf.size
          /\ (nrf').payload = nrf.payload /\ (nrf').dyn = nrf.dyn
          /\ (nrf').rate = nrf.rate /\ (nrf').channel = nrf.channel
          /\ (nrf').ard = nrf.ard /\ (nrf').dirty = nrf.dirty
      BY <1>3, <3>1 DEF NrfCtxs
    <3>h. held' = held
      BY <2>1, <3>2 DEF LengthLeft
    <3>3. Known(nrf', held', radio'.reg) /\ Slow(nrf', held') /\ Config(nrf', FALSE) = Config(nrf, FALSE)
      <4>1. \A r \in Common : StepValue(nrf', r) = StepValue(nrf, r)
        BY <3>2 DEF StepValue, Pipes, Common
      <4> QED
        BY <1>2, <1>3, <2>1, <3>2, <3>h, <4>1
        DEF Known, HoldsRecv, HoldsSend, HoldsWidth, Slow, Config
    <3>4. Chained(bus', "CONFIG", Config(nrf', FALSE), FALSE)
          /\ (radio.status = {} \/ ClearComes')
      <4>1. CASE queue = <<>> /\ radio.status = {}
        <5>1. bus' = <<t>>
          <6> HIDE DEF t
          <6>1. <<>> \o <<t>> = <<t>> /\ <<t>> \o <<>> = <<t>>
            BY Pairs
          <6> QED
            BY <3>1, <4>1, <6>1
        <5> QED
          BY <3>3, <4>1, <5>1 DEF Chained
      <4>2. CASE queue = <<Clear(FALSE)>>
        <5>1. bus' = <<Clear(FALSE), t>>
          <6> DEFINE c == Clear(FALSE)
          <6> HIDE DEF t, c
          <6>1. <<c>> \o <<t>> \o <<>> = <<c, t>>
            BY Pairs
          <6> QED
            BY <3>1, <4>2, <6>1 DEF c
        <5>2. Len(bus') = 2 /\ bus'[1] = Clear(FALSE)
          BY <5>1
        <5>3. ClearComes'
          BY <5>2 DEF ClearComes, Clear, Of
        <5> QED
          BY <3>3, <5>1, <5>3 DEF Chained
      <4> QED
        BY <2>1, <4>1, <4>2
    <3>5. Answered' /\ Off'
      BY <1>2, <2>1, <3>1, <3>4 DEF Answered, Off
    <3>6. Outcome'
      BY <2>1, <2>2, <3>2 DEF Outcome
    <3>7. (nrf').way = "recv" \/ (nrf').way = "send"
      BY <1>1, <3>2 DEF Progress
    <3>8. Finishing'
      BY <1>2, <2>1, <2>2, <3>1, <3>2, <3>3, <3>4, <3>5, <3>6, <3>7 DEF Finishing
    <3> QED
      BY <1>3, <2>1, <3>1, <3>2, <3>h, <3>3, <3>8, KnownKept
      DEF NrfInd, NrfTypeOK, RadioTypeOK
  <2> QED
    BY <1>2, <2>3, <2>4
<1>5. ASSUME NEW d \in BOOLEAN, ~done,
             bus = <<Clear(d), Of(cmd, value, "chain", FALSE)>>
      PROVE  NrfInd'
  <2> DEFINE t == Of(cmd, value, "chain", FALSE)
  <2>1. t.cb = "chain"
    BY DEF Of
  <2>2. /\ UNCHANGED <<nrf, nrfPc, seen, ce, radio, did, held>> /\ bus' = <<t>> /\ ~ClearComes
    <3>1. bus = <<Clear(d), t>>
      BY <1>5
    <3> HIDE DEF t
    <3> QED
      BY <1>3, <2>1, <3>1, DoneClear
  <2>3. Answered' /\ Off' /\ Outcome' = Outcome
    BY <1>2, <2>2 DEF Answered, Off, Outcome
  <2>4. Chained(bus', cmd, IF cmd = "CONFIG" THEN Config(nrf', FALSE) ELSE None, FALSE)
    BY <2>2 DEF Chained, value
  <2>5. Progress(cmd, FALSE)
    <3>1. done = FALSE
      BY <1>5
    <3> QED
      BY <1>1, <3>1
  <2>6. Finishing'
    BY <1>2, <2>2, <2>3, <2>4, <2>5 DEF Finishing, Progress
  <2> QED
    BY <1>3, <2>2, <2>6, StillKept DEF NrfInd, NrfTypeOK, RadioTypeOK
<1>6. Chained(bus, cmd, value, done)
  BY <1>1 DEF value
<1> QED
  BY <1>4, <1>5, <1>6 DEF Chained

\* The status is cleared behind the command that it led to.
LEMMA AnsweredBehind ==
    ASSUME NEW cmd, NEW value, Off, radio.status \subseteq seen,
           UNCHANGED <<seen, radio, ce>>,
           bus' = <<Of(cmd, value, "chain", FALSE), Clear(FALSE)>>
    PROVE  Answered' /\ Off' /\ Chained(bus', cmd, value, FALSE)
<1> DEFINE t == Of(cmd, value, "chain", FALSE)
<1> HIDE DEF t
<1>1. bus' = <<t, Clear(FALSE)>>
  BY DEF t
<1>2. Len(bus') = 2 /\ bus'[2] = Clear(FALSE)
  BY <1>1
<1>3. 2 \in 1..Len(bus') /\ (bus'[2]).cb = "none" /\ ~(bus'[2]).done
  BY <1>2 DEF Clear, Of
<1>4. ClearComes'
  BY <1>3 DEF ClearComes
<1> QED
  BY <1>4 DEF Answered, Off, Chained

Onward(ctx, next) == [ctx EXCEPT !.state = next, !.payload = @]

Commands(ctx, next, t) ==
    /\ ctx.state \in {"GET_PAYLOAD_SIZE", "GET_PAYLOAD", "MAX_RT", "POWER_DOWN"}
    /\ Command(ctx) = <<next, t>>
    /\ ctx.state = "GET_PAYLOAD" => ~Discards(ctx)

\* What Handle does but for the steps and the last state.
LEMMA HandleCommand ==
    ASSUME NEW ctx, NEW next, NEW t, Commands(ctx, next, t),
           Handle(ctx, <<>>, <<Clear(FALSE)>>)
    PROVE  /\ nrf' = Onward(ctx, next)
           /\ bus' = <<t, Clear(FALSE)>> /\ UNCHANGED <<nrfPc, ce>>
<1>0. /\ ctx.state \in {"GET_PAYLOAD_SIZE", "GET_PAYLOAD", "MAX_RT", "POWER_DOWN"}
      /\ Command(ctx) = <<next, t>>
      /\ ctx.state = "GET_PAYLOAD" => ~Discards(ctx)
  BY DEF Commands
<1>1. /\ nrf' = [ctx EXCEPT !.state = Command(ctx)[1],
                            !.payload = IF ctx.state = "GET_PAYLOAD" /\ Discards(ctx)
                                        THEN None ELSE @]
      /\ bus' = <<>> \o <<Command(ctx)[2]>> \o <<Clear(FALSE)>> /\ UNCHANGED <<nrfPc, ce>>
  BY <1>0 DEF Handle, StepNames
<1>2. Command(ctx)[1] = next /\ Command(ctx)[2] = t
  BY <1>0
<1> DEFINE c == Clear(FALSE)
<1> HIDE DEF c
<1>3. <<>> \o <<t>> \o <<c>> = <<t, c>>
  BY Pairs
<1> QED
  BY <1>0, <1>1, <1>2, <1>3 DEF c, Onward

\* A packet came in.
LEMMA StatusReceived ==
    ASSUME NrfInd, Waiting, Off, radio.status \subseteq seen, nrfPc = "thread",
           nrf.way = "recv", radio.tx = <<>>, radio.rx # <<>>,
           Handle([nrf EXCEPT !.state = IF nrf.dyn THEN "GET_PAYLOAD_SIZE"
                                        ELSE "GET_PAYLOAD"], <<>>, <<Clear(FALSE)>>),
           UNCHANGED <<seen, radio, did>>, LengthLeft
    PROVE  NrfInd'
<1>1. /\ NrfTypeOK /\ nrf \in NrfCtxs /\ Slow(nrf, held) /\ Ready
      /\ Kept(nrf, held, radio.reg)
  BY DEF NrfInd, NrfTypeOK, Waiting
<1>2. nrf.payload # None
  BY <1>1 DEF Ready, Asking
<1>3. CASE nrf.dyn
  <2> DEFINE ctx == [nrf EXCEPT !.state = "GET_PAYLOAD_SIZE"]
             t == Of("R_RX_PL_WID", None, "chain", FALSE)
  <2>1. ctx.state = "GET_PAYLOAD_SIZE" /\ Handle(ctx, <<>>, <<Clear(FALSE)>>)
    BY <1>1, <1>3 DEF NrfCtxs
  <2>2. Onward(ctx, "GET_PAYLOAD") = [nrf EXCEPT !.state = "GET_PAYLOAD"]
    BY <1>1 DEF NrfCtxs, Onward
  <2> HIDE DEF ctx
  <2>3. Command(ctx) = <<"GET_PAYLOAD", t>>
    BY <2>1, Transfers DEF Command
  <2>4. /\ nrf' = Onward(ctx, "GET_PAYLOAD")
        /\ bus' = <<t, Clear(FALSE)>> /\ UNCHANGED <<nrfPc, ce>>
    <3> HIDE DEF t
    <3> QED
      BY <2>1, <2>3, HandleCommand DEF Commands
  <2>5. /\ nrf' \in NrfCtxs /\ (nrf').state = "GET_PAYLOAD"
        /\ (nrf').way = nrf.way /\ (nrf').addr = nrf.addr /\ (nrf').size = nrf.size
        /\ (nrf').payload = nrf.payload /\ (nrf').dyn = nrf.dyn
        /\ (nrf').rate = nrf.rate /\ (nrf').channel = nrf.channel
        /\ (nrf').ard = nrf.ard /\ (nrf').dirty = nrf.dirty
    BY <1>1, <2>2, <2>4 DEF NrfCtxs
  <2>h. held' = held /\ held \in SUBSET {"recv", "send", "width", "delay"}
    BY <1>1, <2>5 DEF LengthLeft, NrfTypeOK
  <2>6. Ready'
    <3>1. Asking(nrf')
      BY <1>1, <2>5 DEF Ready, Asking
    <3>2. \A r : StepValue(nrf', r) = StepValue(nrf, r)
      BY <2>5 DEF StepValue, Config, Pipes
    <3> QED
      BY <1>1, <2>5, <2>h, <3>1, <3>2 DEF Ready
  <2>7. Answered' /\ Off'
    BY <2>4, AnsweredBehind
  <2>8. Fetching'
    BY <1>3, <2>4, <2>5, <2>6, <2>7 DEF Fetching
  <2> QED
    BY <1>1, <2>4, <2>5, <2>h, <2>8
    DEF NrfInd, NrfTypeOK, RadioTypeOK, Slow, Kept, HoldsRecv, HoldsSend, HoldsWidth
<1>4. CASE ~nrf.dyn
  <2> DEFINE ctx == [nrf EXCEPT !.state = "GET_PAYLOAD"]
             t == Of("R_RX_PAYLOAD", None, "chain", FALSE)
  <2>1. /\ ctx.state = "GET_PAYLOAD" /\ ~ctx.dyn /\ LastState(ctx) = LastState(nrf)
        /\ Handle(ctx, <<>>, <<Clear(FALSE)>>)
    BY <1>1, <1>4 DEF NrfCtxs, LastState
  <2>2. Onward(ctx, LastState(nrf))
           = Moved(nrf, LastState(nrf), nrf.payload, nrf.size)
    BY <1>1 DEF NrfCtxs, Moved, Onward
  <2> HIDE DEF ctx
  <2>3. Command(ctx) = <<LastState(nrf), t>> /\ ~Discards(ctx)
    BY <2>1, Transfers DEF Command, Discards
  <2>4. /\ nrf' = Moved(nrf, LastState(nrf), nrf.payload, nrf.size)
        /\ bus' = <<t, Clear(FALSE)>> /\ UNCHANGED <<nrfPc, ce>>
    <3>1. /\ nrf' = Onward(ctx, LastState(nrf))
          /\ bus' = <<t, Clear(FALSE)>> /\ UNCHANGED <<nrfPc, ce>>
      <4> HIDE DEF t
      <4> QED
        BY <2>1, <2>3, HandleCommand DEF Commands
    <3> QED
      BY <2>2, <3>1
  <2>5. LastState(nrf) \in {"POWER_DOWN", "USER_DATA"}
    BY DEF LastState
  <2>6. PICK new : new = nrf'
    OBVIOUS
  <2>7. /\ new.state \in {"POWER_DOWN", "USER_DATA"} /\ new.payload = nrf.payload
        /\ new.size = nrf.size /\ new.way = "recv" /\ ~new.dyn /\ new \in NrfCtxs
    BY <1>1, <1>4, <2>4, <2>5, <2>6 DEF Moved, NrfCtxs
  <2>8. PICK h : h = held'
    OBVIOUS
  <2>h. Left(h, nrf.size)
    <3>1. nrf.size = (nrf').size
      BY <2>6, <2>7
    <3> QED
      BY <1>1, <2>8, <3>1, LeftFacts
  <2>9. Known(new, h, radio.reg) /\ new.dirty = {} /\ Slow(new, h)
    BY <1>1, <2>4, <2>6, <2>h, ReadyKnown
  <2>10. Answered' /\ Off' /\ Chained(bus', "R_RX_PAYLOAD", None, FALSE)
    BY <2>4, AnsweredBehind
  <2>11. Finishing'
    BY <1>2, <2>4, <2>6, <2>7, <2>8, <2>9, <2>10 DEF Finishing
  <2>12. h \in SUBSET {"recv", "send", "width", "delay"}
    BY <2>h DEF Left
  <2> QED
    BY <1>1, <2>4, <2>6, <2>7, <2>8, <2>9, <2>11, <2>12, KnownKept
    DEF NrfInd, NrfTypeOK, RadioTypeOK
<1> QED
  BY <1>3, <1>4

\* The payload was acknowledged.
LEMMA StatusSent ==
    ASSUME NrfInd, Waiting, Off, radio.status \subseteq seen, nrfPc = "thread",
           nrf.way = "send", radio.tx = <<>>, did = "acked", nrf.payload \in NrfPayloads,
           Handle([nrf EXCEPT !.state = LastState(nrf)], <<>>, <<Clear(FALSE)>>),
           UNCHANGED <<seen, radio, did>>, LengthLeft
    PROVE  NrfInd'
<1>1. /\ NrfTypeOK /\ nrf \in NrfCtxs /\ Slow(nrf, held) /\ Ready
      /\ Kept(nrf, held, radio.reg)
  BY DEF NrfInd, NrfTypeOK, Waiting
<1>2. nrf.payload # None /\ nrf.payload \in Payloads
  BY <1>1, NrfAssumption DEF Payloads
<1>3. ASSUME nrf' = Moved(nrf, "USER_DATA", nrf.payload, nrf.size)
      PROVE  /\ nrf' \in NrfCtxs /\ (nrf').state = "USER_DATA" /\ (nrf').way = "send"
             /\ (nrf').payload = nrf.payload /\ (nrf').dirty = {}
             /\ Known(nrf', held', radio'.reg) /\ Slow(nrf', held')
             /\ held' \in SUBSET {"recv", "send", "width", "delay"} /\ Config(nrf', FALSE) = Config(nrf, FALSE) /\ Outcome'
  <2>1. PICK new : new = nrf'
    OBVIOUS
  <2>2. /\ new.state = "USER_DATA" /\ new.payload = nrf.payload
        /\ new.way = "send" /\ new \in NrfCtxs /\ new.size = nrf.size
    BY <1>1, <1>3, <2>1 DEF Moved, NrfCtxs
  <2>5. PICK h : h = held'
    OBVIOUS
  <2>h. Left(h, nrf.size)
    <3>1. nrf.size = (nrf').size
      BY <2>1, <2>2
    <3> QED
      BY <1>1, <2>5, <3>1, LeftFacts
  <2>3. Known(new, h, radio.reg) /\ new.dirty = {} /\ Slow(new, h)
    BY <1>1, <1>3, <2>1, <2>h, ReadyKnown
  <2>6. h \in SUBSET {"recv", "send", "width", "delay"}
    BY <2>h DEF Left
  <2>4. Outcome'
    BY <1>2, <2>1, <2>2 DEF Outcome
  <2> QED
    BY <2>1, <2>2, <2>3, <2>4, <2>5, <2>6 DEF Config
<1>4. CASE nrf.save
  <2> DEFINE ctx == [nrf EXCEPT !.state = "POWER_DOWN"]
             t == Of("CONFIG", Config(nrf, FALSE), "chain", FALSE)
  <2>1. /\ ctx.state = "POWER_DOWN" /\ Config(ctx, FALSE) = Config(nrf, FALSE)
        /\ Handle(ctx, <<>>, <<Clear(FALSE)>>)
    BY <1>1, <1>4 DEF NrfCtxs, LastState, Config
  <2>2. Onward(ctx, "USER_DATA")
           = Moved(nrf, "USER_DATA", nrf.payload, nrf.size)
    BY <1>1 DEF NrfCtxs, Moved, Onward
  <2> HIDE DEF ctx
  <2>3. Command(ctx) = <<"USER_DATA", t>>
    BY <2>1, Transfers DEF Command
  <2>4. /\ nrf' = Moved(nrf, "USER_DATA", nrf.payload, nrf.size)
        /\ bus' = <<t, Clear(FALSE)>> /\ UNCHANGED <<nrfPc, ce>>
    <3>1. /\ nrf' = Onward(ctx, "USER_DATA")
          /\ bus' = <<t, Clear(FALSE)>> /\ UNCHANGED <<nrfPc, ce>>
      <4> HIDE DEF t
      <4> QED
        BY <2>1, <2>3, HandleCommand DEF Commands
    <3> QED
      BY <2>2, <3>1
  <2>5. Answered' /\ Off' /\ Chained(bus', "CONFIG", Config(nrf, FALSE), FALSE)
    <3>1. PICK value : value = Config(nrf, FALSE)
      OBVIOUS
    <3> QED
      BY <2>4, <3>1, AnsweredBehind
  <2>6. Finishing'
    BY <1>3, <2>4, <2>5 DEF Finishing
  <2> QED
    BY <1>1, <1>3, <2>4, <2>6, KnownKept DEF NrfInd, NrfTypeOK, RadioTypeOK
<1>5. CASE ~nrf.save
  <2>1. /\ nrf' = [nrf EXCEPT !.state = "USER_DATA"] /\ bus' = <<>>
        /\ nrfPc' = "status" /\ ce' = ce
    <3>1. LastState(nrf) = "USER_DATA"
      BY <1>5 DEF LastState
    <3>2. [nrf EXCEPT !.state = "USER_DATA"].state = "USER_DATA"
      BY <1>1 DEF NrfCtxs
    <3>3. <<Clear(FALSE)>> # <<>>
      OBVIOUS
    <3> QED
      BY <3>1, <3>2, <3>3 DEF Handle, StepNames
  <2>2. nrf' = Moved(nrf, "USER_DATA", nrf.payload, nrf.size)
    BY <1>1, <2>1 DEF Moved, NrfCtxs
  <2>3. Answered' /\ Off' /\ NoChain'
    BY <2>1 DEF Answered, ClearComes, Off, NoChain
  <2>4. Idle'
    BY <1>3, <2>1, <2>2, <2>3 DEF Idle
  <2> QED
    BY <1>1, <1>3, <2>1, <2>2, <2>4, KnownKept DEF NrfInd, NrfTypeOK, RadioTypeOK
<1> QED
  BY <1>4, <1>5

\* All retransmissions failed.
LEMMA StatusFailed ==
    ASSUME NrfInd, Waiting, Off, radio.status \subseteq seen, nrfPc = "thread",
           nrf.way = "send", did = "failed",
           Handle([nrf EXCEPT !.state = "MAX_RT", !.payload = None, !.size = 0],
                  <<>>, <<Clear(FALSE)>>),
           UNCHANGED <<seen, radio, did>>, LengthLeft
    PROVE  NrfInd'
<1>1. /\ NrfTypeOK /\ nrf \in NrfCtxs /\ Slow(nrf, held) /\ Ready
      /\ Kept(nrf, held, radio.reg)
  BY DEF NrfInd, NrfTypeOK, Waiting
<1> DEFINE ctx == [nrf EXCEPT !.state = "MAX_RT", !.payload = None, !.size = 0]
           t == Of("FLUSH_TX", None, "chain", FALSE)
<1>2. /\ ctx.state = "MAX_RT" /\ LastState(ctx) = LastState(nrf)
      /\ Handle(ctx, <<>>, <<Clear(FALSE)>>)
  BY <1>1 DEF NrfCtxs, LastState
<1>3. Onward(ctx, LastState(nrf)) = Moved(nrf, LastState(nrf), None, 0)
  BY <1>1 DEF NrfCtxs, Moved, Onward
<1> HIDE DEF ctx
<1>4. Command(ctx) = <<LastState(nrf), t>>
  BY <1>2, Transfers DEF Command
<1>5. /\ nrf' = Moved(nrf, LastState(nrf), None, 0)
      /\ bus' = <<t, Clear(FALSE)>> /\ UNCHANGED <<nrfPc, ce>>
  <2>1. /\ nrf' = Onward(ctx, LastState(nrf))
        /\ bus' = <<t, Clear(FALSE)>> /\ UNCHANGED <<nrfPc, ce>>
    <3> HIDE DEF t
    <3> QED
      BY <1>2, <1>4, HandleCommand DEF Commands
  <2> QED
    BY <1>3, <2>1
<1>6. LastState(nrf) \in {"POWER_DOWN", "USER_DATA"} /\ None \in Payloads
  BY DEF LastState, Payloads
<1>7. PICK new : new = nrf'
  OBVIOUS
<1>8. /\ new.state \in {"POWER_DOWN", "USER_DATA"} /\ new.payload = None
      /\ new.size = 0 /\ new.way = "send" /\ new \in NrfCtxs
  BY <1>1, <1>5, <1>6, <1>7 DEF Moved, NrfCtxs
<1>9. PICK h : h = held'
  OBVIOUS
<1>h. Left(h, 0)
  <2>1. 0 = (nrf').size
    BY <1>7, <1>8
  <2> QED
    BY <1>1, <1>9, <2>1, LeftFacts
<1>10. Known(new, h, radio.reg) /\ new.dirty = {} /\ Slow(new, h)
  BY <1>1, <1>5, <1>7, <1>h, ReadyKnown
<1>11. Answered' /\ Off' /\ Chained(bus', "FLUSH_TX", None, FALSE)
  BY <1>5, AnsweredBehind
<1>12. Outcome'
  BY <1>7, <1>8 DEF Outcome
<1>13. Finishing'
  BY <1>5, <1>7, <1>8, <1>9, <1>10, <1>11, <1>12 DEF Finishing
<1>14. h \in SUBSET {"recv", "send", "width", "delay"}
  BY <1>h DEF Left
<1> QED
  BY <1>1, <1>5, <1>7, <1>8, <1>9, <1>10, <1>13, <1>14, KnownKept
  DEF NrfInd, NrfTypeOK, RadioTypeOK

\* The status is read while the radio is waited for.
LEMMA DoneStatus ==
    ASSUME NrfInd, Waiting, TransferDone, Off, bus = <<Read(TRUE)>>,
           OnWay(seen), radio.status \subseteq seen
    PROVE  NrfInd'
<1>1. /\ NrfTypeOK /\ nrf \in NrfCtxs /\ nrf.state = "WAITING" /\ nrfPc = "thread" /\ Ready
      /\ nrf.way \in {"recv", "send"} /\ ClearStatus = Clear(FALSE)
  BY Transfers DEF NrfInd, NrfTypeOK, Waiting, Ready, Asking
<1>2. Head(bus) = Read(TRUE) /\ Tail(bus) = <<>>
  BY Pairs
<1>3. Head(bus).cb = "status"
  BY <1>2 DEF Read, Of
<1>4. handle_status(Tail(bus)) /\ UNCHANGED <<seen, radio, did>> /\ LengthLeft
  BY <1>3 DEF TransferDone
<1>5. handle_status(<<>>) /\ UNCHANGED <<seen, radio, did>> /\ LengthLeft
  BY <1>2, <1>4, Zenon
<1>6. CASE Waits("recv", "RX_DR")
  <2>1. nrf.way = "recv" /\ radio.tx = <<>> /\ radio.rx # <<>>
    BY <1>6 DEF Waits, OnWay
  <2>2. ~Waits("send", "TX_DS") /\ ~Waits("send", "MAX_RT")
    BY <2>1 DEF Waits
  <2>3. Handle([nrf EXCEPT !.state = IF nrf.dyn THEN "GET_PAYLOAD_SIZE" ELSE "GET_PAYLOAD"],
               <<>>, <<ClearStatus>>)
    BY <1>5, <1>6, <2>2 DEF handle_status
  <2>4. Handle([nrf EXCEPT !.state = IF nrf.dyn THEN "GET_PAYLOAD_SIZE" ELSE "GET_PAYLOAD"],
               <<>>, <<Clear(FALSE)>>)
    BY <1>1, <2>3, Zenon
  <2> QED
    BY <1>1, <1>5, <2>1, <2>4, StatusReceived
<1>7. CASE Waits("send", "TX_DS")
  <2>1. nrf.way = "send" /\ seen = {"TX_DS"}
    BY <1>7 DEF Waits, OnWay
  <2>2. radio.tx = <<>> /\ did = "acked" /\ nrf.payload \in NrfPayloads
    BY <2>1 DEF OnWay
  <2>3. ~Waits("recv", "RX_DR") /\ ~Waits("send", "MAX_RT")
    BY <2>1 DEF Waits
  <2>4. Handle([nrf EXCEPT !.state = LastState(nrf)], <<>>, <<ClearStatus>>)
    BY <1>5, <1>7, <2>3 DEF handle_status
  <2>5. Handle([nrf EXCEPT !.state = LastState(nrf)], <<>>, <<Clear(FALSE)>>)
    BY <1>1, <2>4, Zenon
  <2> QED
    BY <1>1, <1>5, <2>1, <2>2, <2>5, StatusSent
<1>8. CASE Waits("send", "MAX_RT")
  <2>1. nrf.way = "send" /\ seen = {"MAX_RT"}
    BY <1>8 DEF Waits, OnWay
  <2>2. did = "failed"
    BY <2>1 DEF OnWay
  <2>3. ~Waits("recv", "RX_DR") /\ ~Waits("send", "TX_DS")
    BY <2>1 DEF Waits
  <2>4. Handle([nrf EXCEPT !.state = "MAX_RT", !.payload = None, !.size = 0],
               <<>>, <<ClearStatus>>)
    BY <1>5, <1>8, <2>3 DEF handle_status
  <2>5. Handle([nrf EXCEPT !.state = "MAX_RT", !.payload = None, !.size = 0],
               <<>>, <<Clear(FALSE)>>)
    BY <1>1, <2>4, Zenon
  <2> QED
    BY <1>1, <1>5, <2>1, <2>2, <2>5, StatusFailed
<1>9. CASE ~Waits("recv", "RX_DR") /\ ~Waits("send", "TX_DS") /\ ~Waits("send", "MAX_RT")
  <2>1. bus' = Append(<<>>, ClearStatus) /\ UNCHANGED <<nrf, nrfPc, ce, held>>
    BY <1>5, <1>9 DEF handle_status, LengthLeft
  <2>2. bus' = <<Clear(FALSE)>>
    BY <1>1, <2>1, Pairs
  <2>3. NoChain'
    BY <2>2 DEF NoChain
  <2>4. Waiting'
    BY <1>1, <1>5, <2>1, <2>3 DEF Waiting, Ready, Off
  <2> QED
    BY <1>5, <2>1, <2>4, StillKept DEF NrfInd, NrfTypeOK, RadioTypeOK
<1> QED
  BY <1>6, <1>7, <1>8, <1>9

LEMMA DoneWaiting == NrfInd /\ Waiting /\ TransferDone => NrfInd'
<1> SUFFICES ASSUME NrfInd, Waiting, TransferDone PROVE NrfInd'
  OBVIOUS
<1>1. bus # <<>> /\ Head(bus).done
  BY DEF TransferDone
<1>2. CASE bus = <<Read(FALSE)>>
  <2>1. Head(bus) = Read(FALSE)
    BY <1>2, Pairs
  <2> QED
    BY <1>1, <2>1 DEF Read, Of
<1>3. CASE Off /\ bus = <<Read(TRUE)>> /\ OnWay(seen) /\ radio.status \subseteq seen
  BY <1>3, DoneStatus
<1>4. CASE Off /\ NoChain
  <2>1. PICK d \in BOOLEAN : bus = <<Clear(d)>>
    BY <1>1, <1>4 DEF NoChain
  <2>2. /\ nrfPc = "thread" /\ UNCHANGED <<nrf, nrfPc, seen, ce, radio, did, held>>
        /\ bus' = <<>>
    BY <2>1, DoneClear DEF NrfInd
  <2>3. Waiting'
    BY <1>4, <2>2 DEF Waiting, Ready, Off, NoChain
  <2> QED
    BY <2>2, <2>3, StillKept DEF NrfInd, NrfTypeOK, RadioTypeOK
<1> QED
  BY <1>1, <1>2, <1>3, <1>4 DEF Waiting

LEMMA TransferDoneStep == NrfInd /\ TransferDone => NrfInd'
BY DoneIdle, DoneSettingUp, DoneWaiting, DoneFetching, DoneFinishing DEF NrfInd

-----------------------------------------------------------------------------
(* The invariant holds                                                     *)

LEMMA NrfInitInd == NrfInit => NrfInd
<1> SUFFICES ASSUME NrfInit PROVE NrfInd
  OBVIOUS
<1>1. PICK rate \in NrfRates \ {Kbps250}, channel \in NrfChannels :
         /\ nrf = [way |-> "none", state |-> "USER_DATA", addr |-> None, size |-> 0,
                   payload |-> None, dyn |-> FALSE, save |-> FALSE, rate |-> rate,
                   channel |-> channel, ard |-> 0, dirty |-> {"addr"}]
         /\ nrfPc = "thread" /\ bus = <<>> /\ seen = {} /\ ce = FALSE
         /\ radio = [reg |-> [RF_SETUP |-> rate, RF_CH |-> channel, FEATURE |-> FALSE,
                              SETUP_RETR |-> 0, RX_PW |-> 0, DYNPD |-> {},
                              CONFIG |-> [up |-> FALSE, rx |-> FALSE],
                              RX_ADDR_P1 |-> None, TX_ADDR |-> None, RX_ADDR_P0 |-> None],
                     status |-> {}, rx |-> <<>>, tx |-> <<>>, edge |-> FALSE]
         /\ held = {"width", "delay"}
  BY DEF NrfInit
<1>2. nrf \in NrfCtxs
  BY <1>1 DEF NrfCtxs, Payloads, DirtyBits
<1>3. RadioTypeOK
  <2>1. Registers(radio.reg)
    BY <1>1 DEF Registers, RegNames
  <2>2. radio.reg["RX_PW"] = 0
    BY <1>1
  <2> QED
    BY <1>1, <2>1, <2>2 DEF RadioTypeOK
<1>4. NrfTypeOK
  BY <1>1, <1>2, <1>3 DEF NrfTypeOK
<1>5. Slow(nrf, held)
  BY <1>1 DEF Slow
<1>6. Known(nrf, held, radio.reg)
  <2>1. \A r \in Common : radio.reg[r] = StepValue(nrf, r)
    <3>1. /\ nrf.rate = rate /\ nrf.channel = channel /\ nrf.dyn = FALSE /\ nrf.ard = 0
          /\ radio.reg["RF_SETUP"] = rate /\ radio.reg["RF_CH"] = channel
          /\ radio.reg["FEATURE"] = FALSE /\ radio.reg["SETUP_RETR"] = 0
          /\ radio.reg["DYNPD"] = {}
      BY <1>1
    <3>2. /\ StepValue(nrf, "RF_SETUP") = nrf.rate /\ StepValue(nrf, "RF_CH") = nrf.channel
          /\ StepValue(nrf, "FEATURE") = nrf.dyn /\ StepValue(nrf, "SETUP_RETR") = nrf.ard
          /\ StepValue(nrf, "DYNPD") = Pipes(nrf)
      BY DEF StepValue
    <3>3. Pipes(nrf) = {}
      BY <3>1 DEF Pipes
    <3> QED
      BY <3>1, <3>2, <3>3 DEF Common
  <2>2. /\ HoldsRecv(nrf, held, radio.reg) /\ HoldsSend(nrf, held, radio.reg)
        /\ HoldsWidth(nrf, held, radio.reg)
    <3>1. nrf.size = 0 /\ radio.reg["RX_PW"] = 0 /\ "recv" \notin held /\ "send" \notin held
      BY <1>1
    <3> QED
      BY <3>1 DEF HoldsRecv, HoldsSend, HoldsWidth
  <2>3. "size" \notin nrf.dirty
    BY <1>1
  <2> QED
    BY <2>1, <2>2, <2>3 DEF Known
<1>7. NoChain /\ Off /\ Answered
  BY <1>1 DEF NoChain, Off, Answered
<1>8. nrf.state = "USER_DATA" /\ radio.tx = <<>>
  BY <1>1
<1>9. Idle
  BY <1>1, <1>6, <1>7, <1>8 DEF Idle
<1> QED
  BY <1>4, <1>5, <1>6, <1>9, KnownKept DEF NrfInd

LEMMA NrfNextInd == NrfInd /\ [NrfNext]_nrfVars => NrfInd'
<1> SUFFICES ASSUME NrfInd, [NrfNext]_nrfVars PROVE NrfInd'
  OBVIOUS
<1>1. CASE NrfCalls
  BY <1>1, ReceiveStep, SendStep, SetStep, PowersaveStep DEF NrfCalls
<1>2. CASE NrfHandlers
  BY <1>2, InterruptStep, TransferDoneStep, CallbackReturnsStep DEF NrfHandlers
<1>3. CASE Wire
  BY <1>3, WireStep
<1>4. CASE RadioSends
  BY <1>4, RadioSendsStep
<1>5. CASE RadioReceives
  BY <1>5, RadioReceivesStep
<1>6. CASE UNCHANGED nrfVars
  <2>1. UNCHANGED <<nrf, nrfPc, bus, seen, ce, radio, did, held>>
    BY <1>6 DEF nrfVars
  <2>2. NrfTypeOK' /\ Slow(nrf', held') /\ Kept(nrf', held', radio'.reg)
    BY <2>1, StillKept DEF NrfInd, NrfTypeOK, RadioTypeOK
  <2>3. /\ NoChain' = NoChain /\ Off' = Off /\ Answered' = Answered /\ Outcome' = Outcome
        /\ ClearBehind' = ClearBehind /\ Ready' = Ready
    BY <2>1 DEF NoChain, Off, Answered, Outcome, ClearBehind, ClearComes, Ready
  <2>4. Idle => Idle'
    BY <2>1, <2>3 DEF Idle
  <2>5. SettingUp => SettingUp'
    BY <2>1, <2>3 DEF SettingUp
  <2>6. Waiting => Waiting'
    BY <2>1, <2>3 DEF Waiting, OnWay
  <2>7. Fetching => Fetching'
    BY <2>1, <2>3 DEF Fetching
  <2>8. Finishing => Finishing'
    BY <2>1, <2>3 DEF Finishing
  <2> QED
    BY <2>2, <2>4, <2>5, <2>6, <2>7, <2>8 DEF NrfInd
<1> QED
  BY <1>1, <1>2, <1>3, <1>4, <1>5, <1>6 DEF NrfNext

\* What the invariant says while the radio is let loose.
LEMMA IndSetUp == NrfInd => NrfSetUp
<1> SUFFICES ASSUME NrfInd, OnAir PROVE NrfSetUp
  BY DEF NrfSetUp, NrfRightAddress, NrfRightWidth, NrfRetryDelay
<1>1. Waiting /\ OnWay(radio.status) /\ Ready /\ Asking(nrf) /\ nrf.dirty = {} /\ Slow(nrf, held)
  BY OnAirOnly DEF OnAir, Waiting, Ready, NrfInd
<1>2. nrf.way \in {"recv", "send"} /\ nrf \in NrfCtxs
  BY <1>1 DEF Asking, NrfInd, NrfTypeOK
<1>3. /\ radio.reg["RF_SETUP"] = nrf.rate /\ radio.reg["RF_CH"] = nrf.channel
      /\ radio.reg["FEATURE"] = nrf.dyn /\ radio.reg["SETUP_RETR"] = nrf.ard
      /\ radio.reg["CONFIG"] = Config(nrf, TRUE) /\ radio.reg["DYNPD"] = Pipes(nrf)
  <2>1. \A r \in {"RF_SETUP", "RF_CH", "FEATURE", "SETUP_RETR", "CONFIG", "DYNPD"} :
           r \in DOMAIN Order[nrf.way] /\ ~Exempt(held, r)
    BY <1>2 DEF Order, Exempt
  <2>2. \A r \in {"RF_SETUP", "RF_CH", "FEATURE", "SETUP_RETR", "CONFIG", "DYNPD"} :
           radio.reg[r] = StepValue(nrf, r)
    BY <1>1, <2>1 DEF Ready
  <2>3. /\ StepValue(nrf, "RF_SETUP") = nrf.rate /\ StepValue(nrf, "RF_CH") = nrf.channel
        /\ StepValue(nrf, "FEATURE") = nrf.dyn /\ StepValue(nrf, "SETUP_RETR") = nrf.ard
        /\ StepValue(nrf, "CONFIG") = Config(nrf, TRUE)
        /\ StepValue(nrf, "DYNPD") = Pipes(nrf)
    BY DEF StepValue
  <2> QED
    BY <2>2, <2>3
<1>4. NrfRightAddress
  <2>1. CASE nrf.way = "send" /\ "send" \in held
    <3>1. /\ "TX_ADDR" \in DOMAIN Order[nrf.way] /\ ~Exempt(held, "TX_ADDR")
          /\ "RX_ADDR_P0" \in DOMAIN Order[nrf.way] /\ ~Exempt(held, "RX_ADDR_P0")
      BY <2>1 DEF Order, Exempt
    <3>2. StepValue(nrf, "TX_ADDR") = nrf.addr /\ StepValue(nrf, "RX_ADDR_P0") = nrf.addr
      BY DEF StepValue
    <3> QED
      BY <1>1, <2>1, <3>1, <3>2 DEF Ready, NrfRightAddress
  <2>2. CASE nrf.way = "recv" /\ "recv" \in held
    <3>1. "RX_ADDR_P1" \in DOMAIN Order[nrf.way] /\ ~Exempt(held, "RX_ADDR_P1")
      BY <2>2 DEF Order, Exempt
    <3>2. StepValue(nrf, "RX_ADDR_P1") = nrf.addr
      BY DEF StepValue
    <3> QED
      BY <1>1, <2>2, <3>1, <3>2 DEF Ready, NrfRightAddress
  <2> QED
    BY <1>2, <2>1, <2>2 DEF NrfRightAddress
<1>5. NrfRightWidth
  <2>1. ASSUME nrf.way = "recv", "width" \in held PROVE radio.reg["RX_PW"] = nrf.size
    <3>1. "RX_PW" \in DOMAIN Order[nrf.way] /\ ~Exempt(held, "RX_PW")
      BY <2>1 DEF Order, Exempt
    <3>2. StepValue(nrf, "RX_PW") = nrf.size
      BY DEF StepValue
    <3> QED
      BY <1>1, <3>1, <3>2 DEF Ready
  <2> QED
    BY <2>1 DEF NrfRightWidth
<1>6. NrfRetryDelay
  BY <1>1, <1>3 DEF NrfRetryDelay, Slow
<1>7. nrf.way = "send" /\ "TX_DS" \notin radio.status => radio.tx = <<nrf.payload>>
  BY <1>1 DEF OnWay
<1> QED
  BY <1>3, <1>4, <1>5, <1>6, <1>7 DEF NrfSetUp

LEMMA IndVerdict == NrfInd => NrfVerdict
BY FreeIdle DEF NrfVerdict, Idle, Outcome

\* When the radio is let loose it is set up as the program last asked
\* (nrf_handle_setup and the dirty bits), for every set of addresses, lengths,
\* settings and payloads, but for what NrfSetUp excepts.
THEOREM RadioIsSetUp == NrfSpec => []NrfSetUp
<1>1. NrfInit => NrfInd
  BY NrfInitInd
<1>2. NrfInd /\ [NrfNext]_nrfVars => NrfInd'
  BY NrfNextInd
<1>3. NrfInd => NrfSetUp
  BY IndSetUp
<1> QED
  BY <1>1, <1>2, <1>3, PTL DEF NrfSpec

\* user_cb is told what happened to this very request on the air
\* (nrf_handle_receive, nrf_handle_send and handle_status), however interrupts,
\* transfers and requests alternate.
THEOREM VerdictIsTrue == NrfSpec => []NrfVerdict
<1>1. NrfInit => NrfInd
  BY NrfInitInd
<1>2. NrfInd /\ [NrfNext]_nrfVars => NrfInd'
  BY NrfNextInd
<1>3. NrfInd => NrfVerdict
  BY IndVerdict
<1> QED
  BY <1>1, <1>2, <1>3, PTL DEF NrfSpec
=============================================================================
