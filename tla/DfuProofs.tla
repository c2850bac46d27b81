----------------------------- MODULE DfuProofs -----------------------------
(***************************************************************************)
(* What Dfu promises of downloads, for any sector size, number of sectors  *)
(* and images.                                                             *)
(***************************************************************************)
EXTENDS Dfu, SequenceTheorems, TLAPS

States == {"dfuIDLE", "dfuDNLOAD_SYNC", "dfuDNLOAD_IDLE", "dfuMANIFEST_SYNC", "dfuERROR"}
Statuses == {"OK", "errADDRESS", "errSTALLEDPKT"}
Steps == {"start", "probe", "clear", "abort", "send", "data", "poll", "done", "failed"}
Contents == [image : Images \cup {<<>>}, block : Nat, blank : BOOLEAN]

TypeOK ==
    /\ ctx \in [state : States, status : Statuses, off : Nat]
    /\ last \in BOOLEAN
    /\ staging \in Contents
    /\ flash \in [0..Sectors - 1 -> Contents]
    /\ xfer \in Nat
    /\ job \in [off : Nat, len : Nat]
    /\ tool \in [step : Steps, image : Images \cup {<<>>}, block : Nat]

\* The blocks before block n are whole sectors and in flash; block n is no
\* longer than a sector, and last tells whether it is shorter.
Before(n) ==
    /\ n \in 1..Len(tool.image)
    /\ InPlace(n - 1)
    /\ \A k \in 1..n - 1 : tool.image[k] = SectorSize
    /\ tool.image[n] <= SectorSize
    /\ last <=> tool.image[n] # SectorSize

\* Block n is the last one that was written.
Written(n) ==
    /\ Before(n) /\ InPlace(n)
    /\ ctx.off = (n - 1) * SectorSize + tool.image[n]

Complete ==
    /\ InPlace(Len(tool.image))
    /\ \A k \in 1..Len(tool.image) - 1 : tool.image[k] = SectorSize

\* What tool and device know of each other between two blocks,
Sending ==
    tool.step = "send" =>
        IF tool.block = 0 THEN ctx.state = "dfuIDLE"
        ELSE ctx.state = "dfuDNLOAD_IDLE" /\ Written(tool.block)

\* while a block is on its way,
Receiving ==
    tool.step = "data" =>
        /\ ctx.state = "dfuDNLOAD_SYNC" /\ ctx.off = tool.block * SectorSize
        /\ Before(tool.block + 1)
        /\ xfer = tool.image[tool.block + 1]
        /\ xfer # SectorSize => staging = Erased

\* and until the tool is told what became of it.
Polling ==
    tool.step = "poll" =>
        /\ ctx.state # "dfuMANIFEST_SYNC"
        /\ ctx.state = "dfuDNLOAD_SYNC" =>
             /\ Before(tool.block + 1)
             /\ staging = Block(tool.image, tool.block + 1, TRUE)
             /\ job.off = tool.block * SectorSize
             /\ ctx.off = job.off + tool.image[tool.block + 1]
        /\ ctx.state = "dfuDNLOAD_IDLE" => Written(tool.block + 1)
        /\ ctx.state = "dfuIDLE" => Complete

\* The rest of a session.
Session ==
    /\ tool.step # "start" => tool.image \in Images
    /\ tool.step \in {"probe", "clear", "abort"} => tool.block = 0
    /\ tool.step = "clear" => ctx.state = "dfuERROR"
    /\ tool.step = "abort" => ctx.state = "dfuDNLOAD_IDLE"
    /\ tool.step = "done" => Complete

\* Nothing else happens during an asynchronous write; errors have a cause.
Writing ==
    /\ job # NoJob =>
         ctx.state = "dfuDNLOAD_SYNC" /\ tool.step \in {"start", "probe", "poll"}
    /\ ctx.state = "dfuERROR" => ctx.status # "OK"

DfuInv == TypeOK /\ Sending /\ Receiving /\ Polling /\ Session /\ Writing

LEMMA DfuInvImplies == DfuInv => DownloadExact /\ BlocksKept
<1> SUFFICES ASSUME DfuInv PROVE DownloadExact /\ BlocksKept
  OBVIOUS
<1>1. DownloadExact
  BY DEF DfuInv, Session, Complete, DownloadExact
<1>2. InPlace(0)
  BY DEF InPlace
<1>3. BlocksKept
  BY <1>2 DEF DfuInv, TypeOK, Sending, Written, BlocksKept
<1> QED
  BY <1>1, <1>3

LEMMA DfuInitInv == DfuInit => DfuInv
<1> SUFFICES ASSUME DfuInit PROVE DfuInv
  OBVIOUS
<1> USE DfuAssumption DEF DfuAssumption
<1>1. Erased \in Contents /\ Foreign \in Contents
  BY DEF Contents, Erased, Foreign
<1>2. TypeOK
  BY <1>1 DEF DfuInit, TypeOK, FreshCtx, FreshTool, NoJob, States, Statuses, Steps
<1> QED
  BY <1>2 DEF DfuInit, DfuInv, FreshCtx, FreshTool, Sending, Receiving, Polling, Session, Writing

-----------------------------------------------------------------------------
(* Arithmetic of sectors                                                   *)

LEMMA SectorStart ==
    ASSUME NEW S \in Nat \ {0}, NEW n \in Nat
    PROVE  /\ n * S \in Nat /\ (n * S) % S = 0 /\ (n * S) \div S = n
           /\ (n + 1) * S = n * S + S
OBVIOUS

\* What programming block n at its place does to the flash.
LEMMA ProgramBlock ==
    ASSUME TypeOK, NEW n \in Nat, InPlace(n), NEW off, off = n * SectorSize,
           NEW content, NEW ok \in BOOLEAN, content = Block(tool.image, n + 1, TRUE),
           flash' = Programmed(off, content, ok), tool'.image = tool.image
    PROVE  /\ InPlace(n)'
           /\ Verdict(off, ok) = "OK" => InPlace(n + 1)'
<1> USE DfuAssumption DEF DfuAssumption
<1>1. /\ off \div SectorSize = n
      /\ Programmable(off) <=> n < Sectors
  BY SectorStart DEF Programmable
<1>2. ASSUME n < Sectors
      PROVE  flash' = [flash EXCEPT ![n] = IF ok THEN content ELSE Erased]
  BY <1>1, <1>2, Zenon DEF Programmed
<1>3. ASSUME ~(n < Sectors)
      PROVE  flash' = flash
  BY <1>1, <1>3 DEF Programmed
<1>4. \A k \in 1..n : k <= Sectors /\ flash[k - 1] = Block(tool.image, k, TRUE)
  BY DEF InPlace
<1>5. \A k \in 1..n : flash'[k - 1] = flash[k - 1]
  <2> SUFFICES ASSUME NEW k \in 1..n PROVE flash'[k - 1] = flash[k - 1]
    OBVIOUS
  <2>0. k <= Sectors
    BY <1>4, Zenon
  <2>1. k - 1 \in 0..Sectors - 1 /\ k - 1 # n
    BY <2>0
  <2> QED
    <3>1. CASE n < Sectors
      <4> DEFINE c == IF ok THEN content ELSE Erased
      <4>1. flash' = [flash EXCEPT ![n] = c]
        BY <1>2, <3>1
      <4> HIDE DEF c
      <4> QED
        BY <2>1, <4>1 DEF TypeOK
    <3> QED
      BY <1>3, <3>1
<1>6. InPlace(n)'
  BY <1>4, <1>5 DEF InPlace, Block
<1>7. ASSUME Verdict(off, ok) = "OK" PROVE InPlace(n + 1)'
  <2>1. ok /\ n < Sectors
    BY <1>1, <1>7 DEF Verdict
  <2>2. flash' = [flash EXCEPT ![n] = content]
    BY <1>2, <2>1
  <2>3. n \in 0..Sectors - 1
    BY <2>1
  <2>4. flash'[n] = content
    BY <2>2, <2>3 DEF TypeOK
  <2>5. \A k \in 1..n + 1 : k \in 1..n \/ (k = n + 1 /\ k - 1 = n /\ k <= Sectors)
    BY <2>1
  <2>6. \A k \in 1..n + 1 : k <= Sectors /\ flash'[k - 1] = Block(tool'.image, k, TRUE)
    <3> SUFFICES ASSUME NEW k \in 1..n + 1
                 PROVE  k <= Sectors /\ flash'[k - 1] = Block(tool'.image, k, TRUE)
      OBVIOUS
    <3>1. CASE k \in 1..n
      BY <1>4, <1>5, <3>1
    <3>2. CASE k = n + 1 /\ k - 1 = n /\ k <= Sectors
      BY <2>4, <3>2
    <3> QED
      BY <2>5, <3>1, <3>2
  <2> QED
    BY <2>6, Zenon DEF InPlace, Block
<1> QED
  BY <1>6, <1>7

LEMMA BlockType ==
    ASSUME NEW image \in Images, NEW k \in Nat
    PROVE  Block(image, k + 1, TRUE) \in Contents
<1>1. k + 1 \in Nat
  OBVIOUS
<1>2. image \in Images \cup {<<>>}
  OBVIOUS
<1> QED
  BY <1>1, <1>2 DEF Block, Contents

LEMMA ProgrammedType ==
    ASSUME TypeOK, NEW off \in Nat, NEW content \in Contents, NEW ok \in BOOLEAN
    PROVE  Programmed(off, content, ok) \in [0..Sectors - 1 -> Contents]
<1>1. Erased \in Contents
  BY DEF Contents, Erased
<1> QED
  BY <1>1 DEF TypeOK, Programmed

-----------------------------------------------------------------------------
(* Steps of the tool that leave the flash alone                            *)

LEMMA Frame ==
    ASSUME DfuInv, UNCHANGED <<ctx, last, staging, flash, xfer, job, tool>>
    PROVE  DfuInv'
<1> USE DEF DfuInv
<1>1. \A n : /\ InPlace(n)' <=> InPlace(n)
             /\ Before(n)' <=> Before(n)
             /\ Written(n)' <=> Written(n)
  BY Zenon DEF InPlace, Before, Written
<1>2. Complete' <=> Complete
  BY Zenon DEF InPlace, Complete
<1>3. TypeOK' /\ Session' /\ Writing'
  BY <1>2 DEF TypeOK, Session, Writing
<1>4. Sending' /\ Receiving' /\ Polling'
  BY <1>1, <1>2 DEF Sending, Receiving, Polling
<1> QED
  BY <1>3, <1>4

LEMMA RestartStep ==
    ASSUME DfuInv, flash' \in [0..Sectors - 1 -> Contents], NEW toLoader, Restart(toLoader)
    PROVE  DfuInv'
<1>1. Foreign \in Contents
  BY DEF Contents, Foreign
<1>2. TypeOK'
  BY <1>1 DEF Restart, TypeOK, FreshCtx, FreshTool, NoJob, States, Statuses, Steps
<1> QED
  BY <1>2 DEF Restart, DfuInv, FreshCtx, FreshTool, Sending, Receiving, Polling, Session,
              Writing

LEMMA HostStartStep ==
    ASSUME DfuInv, NEW image \in Images, HostStart(image)
    PROVE  DfuInv'
<1>1. tool'.step = "probe" /\ tool'.block = 0 /\ tool'.image = image
      /\ UNCHANGED <<ctx, last, staging, flash, xfer, job>>
  BY DEF HostStart
<1>2. TypeOK'
  BY <1>1 DEF DfuInv, TypeOK, HostStart, Steps
<1> QED
  BY <1>1, <1>2 DEF DfuInv, HostStart, Sending, Receiving, Polling, Session, Writing

LEMMA HostQuitsStep ==
    ASSUME DfuInv, HostQuits
    PROVE  DfuInv'
<1>1. TypeOK'
  BY DEF DfuInv, TypeOK, HostQuits, FreshTool, Steps
<1> QED
  BY <1>1 DEF DfuInv, HostQuits, FreshTool, Sending, Receiving, Polling, Session, Writing

LEMMA GetStatusStep ==
    ASSUME DfuInv, GetStatus
    PROVE  DfuInv'
<1> USE DEF DfuInv
<1>1. /\ tool'.step = ToolStep(ctx.state) /\ tool'.image = tool.image
      /\ tool'.block = IF tool.step = "poll" /\ ctx.state = "dfuDNLOAD_IDLE"
                       THEN tool.block + 1 ELSE tool.block
      /\ UNCHANGED <<ctx, last, staging, flash, xfer, job>>
        BY DEF GetStatus, TypeOK
<1>2. TypeOK'
  <2> DEFINE b == IF tool.step = "poll" /\ ctx.state = "dfuDNLOAD_IDLE"
                  THEN tool.block + 1 ELSE tool.block
  <2>1. ToolStep(ctx.state) \in Steps
    BY DEF ToolStep, Steps
  <2>2. b \in Nat
    BY DEF TypeOK
  <2>3. tool' = [tool EXCEPT !.step = ToolStep(ctx.state), !.block = b]
    BY DEF GetStatus
  <2> HIDE DEF b
  <2> QED
    BY <1>1, <2>1, <2>2, <2>3 DEF TypeOK
<1>3. \A n : /\ Before(n)' <=> Before(n)
             /\ Written(n)' <=> Written(n)
  BY <1>1, Zenon DEF Before, Written, InPlace
<1>4. Complete' <=> Complete
  BY <1>1, Zenon DEF Complete, InPlace
<1>5. CASE tool.step = "probe"
  <2>1. tool'.block = 0 /\ tool.image \in Images
    BY <1>1, <1>5 DEF Session
  <2>2. CASE ctx.state = "dfuERROR"
    <3>0. ToolStep("dfuERROR") = "clear"
      BY <1>5 DEF ToolStep
    <3>1. tool'.step = "clear"
      BY <1>1, <2>2, <3>0
    <3> QED
      BY <1>1, <1>2, <1>5, <2>1, <2>2, <3>1 DEF Sending, Receiving, Polling, Session, Writing
  <2>3. CASE ctx.state = "dfuDNLOAD_IDLE"
    <3>0. ToolStep("dfuDNLOAD_IDLE") = "abort"
      BY <1>5 DEF ToolStep
    <3>1. tool'.step = "abort"
      BY <1>1, <2>3, <3>0
    <3> QED
      BY <1>1, <1>2, <1>5, <2>1, <2>3, <3>1 DEF Sending, Receiving, Polling, Session, Writing
  <2>4. CASE ctx.state = "dfuIDLE"
    <3>0. ToolStep("dfuIDLE") = "send"
      BY <1>5 DEF ToolStep
    <3>1. tool'.step = "send"
      BY <1>1, <2>4, <3>0
    <3> QED
      BY <1>1, <1>2, <1>5, <2>1, <2>4, <3>1 DEF Sending, Receiving, Polling, Session, Writing
  <2>5. CASE ctx.state \in {"dfuDNLOAD_SYNC", "dfuMANIFEST_SYNC"}
    <3>1. tool'.step = "probe"
      BY <1>1, <1>5, <2>5 DEF ToolStep
    <3> QED
      BY <1>1, <1>2, <1>5, <2>1, <2>5, <3>1 DEF Sending, Receiving, Polling, Session, Writing
  <2> QED
    BY <2>2, <2>3, <2>4, <2>5 DEF TypeOK, States
<1>6. CASE tool.step = "poll"
  <2>1. CASE ctx.state = "dfuDNLOAD_SYNC"
    BY <1>1, <1>2, <1>3, <1>6, <2>1 DEF ToolStep, Sending, Receiving, Polling, Session, Writing
  <2>2. CASE ctx.state = "dfuDNLOAD_IDLE"
    <3>1. tool'.step = "send" /\ tool'.block = tool.block + 1 /\ tool'.block # 0
      BY <1>1, <1>6, <2>2 DEF ToolStep, TypeOK
    <3>2. Written(tool.block + 1)
      BY <1>6, <2>2 DEF Polling
    <3> QED
      BY <1>1, <1>2, <1>3, <2>2, <3>1, <3>2, <1>6
      DEF Sending, Receiving, Polling, Session, Writing
  <2>3. CASE ctx.state \in {"dfuIDLE", "dfuERROR"}
    BY <1>1, <1>2, <1>4, <1>6, <2>3 DEF ToolStep, Sending, Receiving, Polling, Session, Writing
  <2> QED
    BY <1>6, <2>1, <2>2, <2>3 DEF TypeOK, States, Polling
<1> QED
  BY <1>5, <1>6 DEF GetStatus

LEMMA ProbingStep ==
    ASSUME DfuInv, ClrStatus \/ Abort \/ SetInterface
    PROVE  DfuInv'
<1> USE DEF DfuInv
<1>1. /\ tool.step \in {"probe", "clear", "abort"} /\ tool'.step = "probe"
      /\ tool'.image = tool.image /\ tool'.block = tool.block
      /\ ctx'.state = "dfuIDLE" /\ ctx'.status \in Statuses /\ ctx'.off = ctx.off
      /\ UNCHANGED <<last, staging, flash, xfer, job>>
  BY DEF ClrStatus, Abort, SetInterface, After, Session, TypeOK, Statuses
<1>2. job = NoJob
  BY DEF Writing, Session, ClrStatus, Abort, SetInterface
<1>3. TypeOK'
  <2>1. ctx' \in [state : States, status : Statuses, off : Nat]
    BY DEF ClrStatus, Abort, SetInterface, TypeOK, States, Statuses
  <2>2. tool' \in [step : Steps, image : Images \cup {<<>>}, block : Nat]
    BY DEF ClrStatus, Abort, SetInterface, After, TypeOK, Steps
  <2> QED
    BY <1>1, <2>1, <2>2 DEF TypeOK
<1> QED
  BY <1>1, <1>2, <1>3 DEF Sending, Receiving, Polling, Session, Writing

-----------------------------------------------------------------------------
(* Steps of a download                                                     *)

\* What the tool's next request asks for.
LEMMA NextLenFacts ==
    ASSUME DfuInv, tool.step = "send"
    PROVE  /\ tool.image \in Seq(1..SectorSize + 1) /\ tool.block \in 0..Len(tool.image)
           /\ tool.block < Len(tool.image) => /\ NextLen = tool.image[tool.block + 1]
                                              /\ NextLen \in 1..SectorSize + 1
           /\ tool.block = Len(tool.image) => NextLen = 0 /\ tool.block # 0
<1> USE DfuAssumption DEF DfuAssumption, DfuInv
<1>1. tool.image \in Seq(1..SectorSize + 1) /\ tool.image # <<>>
  BY DEF Session
<1>2. Len(tool.image) \in Nat /\ Len(tool.image) # 0
  BY <1>1, EmptySeq
<1>3. tool.block \in 0..Len(tool.image)
  BY <1>2 DEF TypeOK, Sending, Written, Before
<1> QED
  BY <1>1, <1>2, <1>3 DEF NextLen

\* After blocks that were written, an offset that is no multiple of a sector
\* comes from a short last block.
LEMMA OffsetFacts ==
    ASSUME DfuInv, tool.step = "send"
    PROVE  LET off == StartOffset(ctx)
           IN /\ off \in Nat
              /\ tool.block = 0 => off = 0
              /\ tool.block # 0 => off # 0
              /\ tool.block # 0 /\ ~last => off = tool.block * SectorSize
<1> USE DfuAssumption DEF DfuAssumption, DfuInv
<1>1. CASE tool.block = 0
  BY <1>1 DEF Sending, StartOffset
<1>2. CASE tool.block # 0
  <2>1. Written(tool.block) /\ StartOffset(ctx) = ctx.off
    BY <1>2 DEF Sending, StartOffset
  <2>2. /\ tool.block \in 1..Len(tool.image) /\ (last <=> tool.image[tool.block] # SectorSize)
        /\ ctx.off = (tool.block - 1) * SectorSize + tool.image[tool.block]
    BY <2>1, Zenon DEF Written, Before
  <2>3. /\ (tool.block - 1) * SectorSize \in Nat
        /\ tool.block * SectorSize = (tool.block - 1) * SectorSize + SectorSize
    <3>1. tool.block - 1 \in Nat /\ (tool.block - 1) + 1 = tool.block
      BY <1>2 DEF TypeOK
    <3> QED
      BY <3>1, SectorStart
  <2> DEFINE start == (tool.block - 1) * SectorSize
  <2> HIDE DEF start
  <2>4. start \in Nat /\ ctx.off = start + tool.image[tool.block]
        /\ tool.block * SectorSize = start + SectorSize
    BY <2>2, <2>3 DEF start
  <2>5. tool.image[tool.block] \in 1..SectorSize + 1
    <3>1. tool.image \in Seq(1..SectorSize + 1) /\ tool.block \in 1..Len(tool.image)
      BY <2>2, NextLenFacts
    <3> QED
      BY <3>1, ElementOfSeq
  <2>6. ctx.off \in Nat /\ ctx.off # 0
    BY <2>4, <2>5
  <2>7. ~last => ctx.off = tool.block * SectorSize
    BY <2>2, <2>4
  <2> QED
    BY <1>2, <2>1, <2>6, <2>7
<1> QED
  BY <1>1, <1>2

LEMMA RefusedStep ==
    ASSUME DfuInv, tool.step = "send", ctx'.state = "dfuERROR", ctx'.status # "OK",
           ctx' \in [state : States, status : Statuses, off : Nat], last' \in BOOLEAN,
           tool' = [tool EXCEPT !.step = "failed"],
           UNCHANGED <<staging, flash, xfer, job>>
    PROVE  DfuInv'
<1>1. TypeOK'
  BY DEF DfuInv, TypeOK, Steps
<1>2. tool'.step = "failed" /\ tool'.image = tool.image
  BY DEF DfuInv, TypeOK
<1> QED
  BY <1>1, <1>2 DEF DfuInv, Sending, Receiving, Polling, Session, Writing

LEMMA AcceptedStep ==
    ASSUME DfuInv, tool.step = "send", tool.block < Len(tool.image),
           NextLen <= SectorSize, ~last \/ tool.block = 0,
           ctx' = [state |-> "dfuDNLOAD_SYNC", status |-> "OK", off |-> StartOffset(ctx)],
           last' = (NextLen # SectorSize), staging' = SetupStaging(NextLen),
           xfer' = NextLen, tool' = [tool EXCEPT !.step = "data"],
           UNCHANGED <<flash, job>>
    PROVE  DfuInv'
<1> USE DfuAssumption DEF DfuAssumption, DfuInv
<1> DEFINE n == tool.block + 1
<1>1. /\ tool.image \in Seq(1..SectorSize + 1) /\ n \in 1..Len(tool.image)
      /\ NextLen = tool.image[n] /\ NextLen \in Nat
  BY NextLenFacts
<1>2. tool'.step = "data" /\ tool'.image = tool.image /\ tool'.block = tool.block
  BY DEF TypeOK
<1>3. StartOffset(ctx) = tool.block * SectorSize /\ StartOffset(ctx) \in Nat
  BY OffsetFacts DEF TypeOK
<1>4. InPlace(n - 1) /\ \A k \in 1..n - 1 : tool.image[k] = SectorSize
  <2>1. CASE tool.block = 0
    BY <2>1 DEF InPlace
  <2>2. CASE tool.block # 0
    <3>1. Written(tool.block) /\ n - 1 = tool.block /\ ~last
      BY <2>2 DEF Sending, TypeOK
    <3>2. /\ InPlace(tool.block) /\ tool.image[tool.block] = SectorSize
          /\ \A k \in 1..tool.block - 1 : tool.image[k] = SectorSize
      BY <3>1 DEF Written, Before
    <3>3. \A k \in 1..tool.block : k \in 1..tool.block - 1 \/ k = tool.block
      BY DEF TypeOK
    <3> QED
      BY <3>1, <3>2, <3>3
  <2> QED
    BY <2>1, <2>2
<1>5. TypeOK'
  <2>1. Erased \in Contents
    BY DEF Contents, Erased
  <2> QED
    BY <1>1, <1>3, <2>1 DEF TypeOK, States, Statuses, Steps, SetupStaging
<1>6. Before(n)'
  BY <1>1, <1>2, <1>4 DEF Before, InPlace, Block
<1>7. Receiving'
  BY <1>1, <1>2, <1>3, <1>6 DEF Receiving, SetupStaging, TypeOK
<1> QED
  BY <1>2, <1>5, <1>7 DEF Sending, Polling, Session, Writing

\* The request that ends the download.
LEMMA FinishedStep ==
    ASSUME DfuInv, tool.step = "send", tool.block = Len(tool.image),
           ctx' = [state |-> "dfuIDLE", status |-> "OK", off |-> StartOffset(ctx)],
           last' \in BOOLEAN, staging' = SetupStaging(0), xfer' = 0,
           tool' = [tool EXCEPT !.step = "poll"], UNCHANGED <<flash, job>>
    PROVE  DfuInv'
<1> USE DfuAssumption DEF DfuAssumption, DfuInv
<1>1. tool.block # 0 /\ Written(tool.block)
  BY NextLenFacts DEF Sending
<1>2. tool'.step = "poll" /\ tool'.image = tool.image /\ tool'.block = tool.block
  BY DEF TypeOK
<1>3. TypeOK'
  <2>1. Erased \in Contents
    BY DEF Contents, Erased
  <2> QED
    BY <2>1, OffsetFacts DEF TypeOK, States, Statuses, Steps, SetupStaging
<1>4. Complete'
  BY <1>1, <1>2 DEF Written, Before, Complete, InPlace, Block
<1> QED
  BY <1>2, <1>3, <1>4 DEF Sending, Receiving, Polling, Session, Writing

LEMMA DnloadStep ==
    ASSUME DfuInv, Dnload
    PROVE  DfuInv'
<1> USE DfuAssumption DEF DfuAssumption, DfuInv
<1> DEFINE off == StartOffset(ctx)
           isLast == last /\ off # 0
           c == [ctx EXCEPT !.off = off, !.status = "OK"]
<1>1. tool.step = "send" /\ ctx.state \in {"dfuIDLE", "dfuDNLOAD_IDLE"}
  BY DEF Dnload, Sending
<1>2. off \in Nat /\ isLast \in BOOLEAN
  BY <1>1, OffsetFacts DEF TypeOK
<1>3. SetupRefuses(NextLen, isLast)
        => /\ ctx' = [c EXCEPT !.state = "dfuERROR", !.status = "errADDRESS"]
           /\ After(ctx', "poll")
           /\ last' = IF NextLen > SectorSize THEN last ELSE isLast
           /\ UNCHANGED <<staging, flash, xfer, job>>
  BY <1>1, Zenon DEF Dnload
<1>4. ~SetupRefuses(NextLen, isLast)
        => /\ last' = (isLast \/ NextLen # SectorSize)
           /\ staging' = SetupStaging(NextLen) /\ xfer' = NextLen
           /\ IF NextLen > 0
              THEN /\ ctx' = [c EXCEPT !.state = "dfuDNLOAD_SYNC"]
                   /\ tool' = [tool EXCEPT !.step = "data"]
              ELSE /\ ctx' = dfu_dnload_complete([c EXCEPT !.state = "dfuMANIFEST_SYNC"],
                                                 0, "OK")
                   /\ After(ctx', "poll")
           /\ UNCHANGED <<flash, job>>
  BY <1>1, Zenon DEF Dnload
<1>5. c = [ctx EXCEPT !.off = off, !.status = "OK"]
  OBVIOUS
<1> HIDE DEF c
<1>6. c = [state |-> ctx.state, status |-> "OK", off |-> off]
  BY <1>5 DEF TypeOK
<1>7. CASE SetupRefuses(NextLen, isLast)
  <2>1. /\ ctx' = [state |-> "dfuERROR", status |-> "errADDRESS", off |-> off]
        /\ last' = IF NextLen > SectorSize THEN last ELSE isLast
        /\ tool' = [tool EXCEPT !.step = "failed"]
        /\ UNCHANGED <<staging, flash, xfer, job>>
    <3>1. ctx' = [c EXCEPT !.state = "dfuERROR", !.status = "errADDRESS"]
      BY <1>3, <1>7
    <3>2. ctx' = [state |-> "dfuERROR", status |-> "errADDRESS", off |-> off]
      BY <1>6, <3>1
    <3> QED
      BY <1>3, <1>7, <3>2 DEF After
  <2>2. last' \in BOOLEAN
    BY <1>2, <2>1 DEF TypeOK
  <2> QED
    BY <1>1, <1>2, <2>1, <2>2, RefusedStep DEF States, Statuses
<1>8. CASE ~SetupRefuses(NextLen, isLast) /\ tool.block < Len(tool.image)
  <2>1. NextLen \in 1..SectorSize + 1
    BY <1>1, <1>8, NextLenFacts
  <2>2. NextLen <= SectorSize /\ ~isLast
    BY <1>8, <2>1 DEF SetupRefuses
  <2>3. ~last \/ tool.block = 0
    BY <1>1, <2>2, OffsetFacts
  <2>4. NextLen > 0
    BY <2>1
  <2>5. ctx' = [state |-> "dfuDNLOAD_SYNC", status |-> "OK", off |-> off]
    <3>1. ctx' = [c EXCEPT !.state = "dfuDNLOAD_SYNC"]
      BY <1>8, <1>4, <2>4
    <3> HIDE DEF off
    <3> QED
      BY <1>6, <3>1
  <2>6. last' = (NextLen # SectorSize)
    BY <1>4, <1>8, <2>2
  <2> QED
    BY <1>1, <1>8, <1>4, <2>2, <2>3, <2>4, <2>5, <2>6, AcceptedStep
<1>9. CASE ~SetupRefuses(NextLen, isLast) /\ tool.block = Len(tool.image)
  <2>1. NextLen = 0
    BY <1>1, <1>9, NextLenFacts
  <2>2. ctx' = dfu_dnload_complete([c EXCEPT !.state = "dfuMANIFEST_SYNC"], 0, "OK")
        /\ After(ctx', "poll")
    BY <1>9, <1>4, <2>1
  <2>3. ctx' = [state |-> "dfuIDLE", status |-> "OK", off |-> off]
    <3> DEFINE d == [c EXCEPT !.state = "dfuMANIFEST_SYNC"]
               e == [d EXCEPT !.off = @ + 0]
    <3>1. ctx' = dfu_write_done(e, "OK")
      BY <2>2 DEF dfu_dnload_complete
    <3>2. d = [c EXCEPT !.state = "dfuMANIFEST_SYNC"] /\ e = [d EXCEPT !.off = @ + 0]
      OBVIOUS
    <3> HIDE DEF d, e, off
    <3>3. d = [state |-> "dfuMANIFEST_SYNC", status |-> "OK", off |-> off]
      BY <1>6, <3>2
    <3>4. e = [state |-> "dfuMANIFEST_SYNC", status |-> "OK", off |-> off]
      <4>1. d.off + 0 = off
        BY <1>2, <3>3
      <4>2. e = [d EXCEPT !.off = off]
        BY <3>2, <4>1
      <4> QED
        BY <3>3, <4>2
    <3> QED
      BY <3>1, <3>4 DEF dfu_write_done, AfterWrite
  <2>4. tool' = [tool EXCEPT !.step = "poll"]
    BY <2>2, <2>3 DEF After
  <2>5. last' \in BOOLEAN /\ staging' = SetupStaging(0) /\ xfer' = 0
        /\ UNCHANGED <<flash, job>>
    BY <1>9, <1>4, <2>1
  <2> QED
    BY <1>1, <1>9, <2>3, <2>4, <2>5, FinishedStep
<1> QED
  BY <1>1, <1>7, <1>8, <1>9, NextLenFacts

\* The end of a write in dfuDNLOAD_SYNC.
LEMMA WriteDoneFacts ==
    ASSUME NEW c, NEW off, NEW old,
           c = [state |-> "dfuDNLOAD_SYNC", status |-> old, off |-> off],
           NEW err \in {"OK", "errADDRESS"}
    PROVE  dfu_write_done(c, err) =
             [state |-> IF err = "OK" THEN "dfuDNLOAD_IDLE" ELSE "dfuERROR",
              status |-> err, off |-> off]
<1> DEFINE s == IF err = "OK" THEN AfterWrite(c.state) ELSE "dfuERROR"
           d == dfu_write_done(c, err)
<1>1. d = [c EXCEPT !.status = err, !.state = s]
  BY Zenon DEF dfu_write_done
<1>2. s = IF err = "OK" THEN "dfuDNLOAD_IDLE" ELSE "dfuERROR"
  <2>1. c.state = "dfuDNLOAD_SYNC"
    OBVIOUS
  <2> QED
    BY <2>1 DEF AfterWrite
<1> HIDE DEF s, d
<1>3. d = [state |-> s, status |-> err, off |-> off]
  BY <1>1
<1> QED
  BY <1>2, <1>3 DEF d

\* The block the tool sent last is programmed, at once or asynchronously.
LEMMA ProgrammedStep ==
    ASSUME DfuInv, tool.step \in {"data", "poll"}, Before(tool.block + 1),
           NEW off, off = tool.block * SectorSize, NEW ok \in BOOLEAN,
           flash' = Programmed(off, Block(tool.image, tool.block + 1, TRUE), ok),
           ctx' = [state |-> IF Verdict(off, ok) = "OK" THEN "dfuDNLOAD_IDLE"
                                                        ELSE "dfuERROR",
                   status |-> Verdict(off, ok),
                   off |-> off + tool.image[tool.block + 1]],
           tool' \in [step : {"poll", "failed"}, image : {tool.image}, block : {tool.block}],
           Verdict(off, ok) = "OK" => tool'.step = "poll",
           job' = NoJob, xfer' \in Nat, last' = last, staging' \in Contents
    PROVE  DfuInv'
<1> USE DfuAssumption DEF DfuAssumption, DfuInv
<1> DEFINE n == tool.block + 1
           content == Block(tool.image, n, TRUE)
<1>1. tool.image \in Images /\ tool.block \in Nat
  BY DEF Session, TypeOK
<1>2. content \in Contents
  BY <1>1, BlockType
<1>3. off \in Nat
  BY <1>1, SectorStart
<1>4. n \in 1..Len(tool.image) /\ tool.image[n] \in Nat /\ n - 1 = tool.block
  <2>1. tool.image \in Seq(1..SectorSize + 1) /\ n \in 1..Len(tool.image)
    BY <1>1 DEF Before
  <2>2. tool.image[n] \in 1..SectorSize + 1
    BY <2>1, ElementOfSeq
  <2>3. tool.image[n] \in Nat
    BY <2>2
  <2>4. n - 1 = tool.block
    BY <1>1
  <2> QED
    BY <2>1, <2>3, <2>4, Zenon
<1>5. InPlace(tool.block)
  BY <1>4 DEF Before
<1>6. /\ tool'.image = tool.image /\ tool'.block = tool.block
      /\ tool'.step \in {"poll", "failed"}
  OBVIOUS
<1>7. Verdict(off, ok) \in {"OK", "errADDRESS"}
  BY DEF Verdict
<1>8. TypeOK'
  <2>1. flash' \in [0..Sectors - 1 -> Contents]
    BY <1>2, <1>3, ProgrammedType
  <2>2. off + tool.image[n] \in Nat
    BY <1>3, <1>4
  <2> DEFINE state == IF Verdict(off, ok) = "OK" THEN "dfuDNLOAD_IDLE" ELSE "dfuERROR"
  <2>3. ctx' = [state |-> state, status |-> Verdict(off, ok), off |-> off + tool.image[n]]
        /\ state \in States
    BY DEF States
  <2> HIDE DEF state, n
  <2>4. ctx' \in [state : States, status : Statuses, off : Nat]
    BY <1>7, <2>2, <2>3 DEF Statuses
  <2>5. tool' \in [step : Steps, image : Images \cup {<<>>}, block : Nat]
    BY <1>1 DEF Steps
  <2> QED
    BY <2>1, <2>4, <2>5 DEF TypeOK, NoJob
<1>9. InPlace(tool.block)' /\ (Verdict(off, ok) = "OK" => InPlace(n)')
  BY <1>1, <1>5, <1>6, ProgramBlock
<1>10. CASE Verdict(off, ok) = "OK"
  <2>1. /\ ctx'.state = "dfuDNLOAD_IDLE" /\ ctx'.off = off + tool.image[n]
        /\ tool'.step = "poll"
    BY <1>10
  <2>2. Before(n)'
    BY <1>4, <1>6, <1>9 DEF Before
  <2>3. Written(n)'
    BY <1>4, <1>6, <1>9, <1>10, <2>1, <2>2 DEF Written
  <2> QED
    BY <1>1, <1>6, <1>8, <2>1, <2>3 DEF Sending, Receiving, Polling, Session, Writing
<1>11. CASE Verdict(off, ok) = "errADDRESS"
  <2>1. ctx'.state = "dfuERROR" /\ ctx'.status = "errADDRESS"
    BY <1>11
  <2> QED
    BY <1>1, <1>6, <1>8, <2>1 DEF Sending, Receiving, Polling, Session, Writing
<1> QED
  BY <1>7, <1>10, <1>11

LEMMA DataStageStep ==
    ASSUME DfuInv, DataStage
    PROVE  DfuInv'
<1> USE DfuAssumption DEF DfuAssumption, DfuInv
<1> DEFINE n == tool.block + 1
           content == Block(tool.image, n, TRUE)
           d == [ctx EXCEPT !.off = @ + xfer]
<1>1. /\ tool.step = "data" /\ ctx.state = "dfuDNLOAD_SYNC" /\ job = NoJob
      /\ ctx.off = tool.block * SectorSize
      /\ Before(n) /\ xfer = tool.image[n] /\ (xfer # SectorSize => staging = Erased)
      /\ tool.image \in Images
  BY DEF DataStage, Receiving, Session, Writing
<1>2. /\ xfer' = 0 /\ staging' = ReceivedBlock /\ last' = last /\ After(ctx', "poll")
      /\ \/ \E ok \in BOOLEAN :
              /\ flash' = Programmed(ctx.off, ReceivedBlock, ok)
              /\ ctx' = dfu_dnload_complete(ctx, xfer, Verdict(ctx.off, ok))
              /\ job' = job
         \/ /\ job' = [off |-> ctx.off, len |-> xfer]
            /\ ctx' = dfu_dnload_complete(ctx, xfer, "async")
            /\ flash' = flash
  BY DEF DataStage
<1>3. ReceivedBlock = content
  <2>1. xfer = SectorSize \/ staging = Erased
    BY <1>1
  <2> QED
    BY <2>1, Zenon DEF ReceivedBlock, Block
<1>4. content \in Contents
  BY <1>1, BlockType DEF TypeOK
<1>5. d = [ctx EXCEPT !.off = @ + xfer]
  OBVIOUS
<1> HIDE DEF d
<1>6. d = [state |-> "dfuDNLOAD_SYNC", status |-> ctx.status, off |-> ctx.off + xfer]
  BY <1>1, <1>5 DEF TypeOK
<1>7. ASSUME NEW ok \in BOOLEAN, flash' = Programmed(ctx.off, ReceivedBlock, ok), job' = job,
             ctx' = dfu_dnload_complete(ctx, xfer, Verdict(ctx.off, ok))
      PROVE  DfuInv'
  <2> DEFINE verdict == Verdict(ctx.off, ok)
  <2>1. verdict \in {"OK", "errADDRESS"}
    BY DEF Verdict
  <2>2. ctx' = dfu_write_done(d, verdict)
    <3>1. verdict # "async"
      BY <2>1
    <3> QED
      BY <1>7, <3>1, Zenon DEF dfu_dnload_complete, d
  <2>3. ctx' = [state |-> IF verdict = "OK" THEN "dfuDNLOAD_IDLE" ELSE "dfuERROR",
                status |-> verdict, off |-> ctx.off + xfer]
    BY <1>6, <2>1, <2>2, WriteDoneFacts
  <2>4. tool' = [tool EXCEPT !.step = IF verdict = "OK" THEN "poll" ELSE "failed"]
    <3>1. ctx'.state = "dfuERROR" <=> verdict # "OK"
      BY <2>1, <2>3
    <3> QED
      BY <1>2, <3>1 DEF After
  <2> HIDE DEF verdict
  <2>5. /\ tool' \in [step : {"poll", "failed"}, image : {tool.image}, block : {tool.block}]
        /\ verdict = "OK" => tool'.step = "poll"
    BY <2>4 DEF TypeOK
  <2> QED
    BY <1>1, <1>2, <1>3, <1>4, <1>7, <2>3, <2>5, ProgrammedStep DEF verdict
<1>8. ASSUME job' = [off |-> ctx.off, len |-> xfer], flash' = flash,
             ctx' = dfu_dnload_complete(ctx, xfer, "async")
      PROVE  DfuInv'
  <2>1. ctx' = d
    BY <1>8, Zenon DEF dfu_dnload_complete, d
  <2>2. tool' = [tool EXCEPT !.step = "poll"]
    BY <1>2, <1>6, <2>1 DEF After
  <2>3. tool'.step = "poll" /\ tool'.image = tool.image /\ tool'.block = tool.block
    BY <2>2 DEF TypeOK
  <2>4. TypeOK'
    <3>1. ctx' \in [state : States, status : Statuses, off : Nat]
      BY <1>6, <2>1 DEF TypeOK, States
    <3>2. tool' \in [step : Steps, image : Images \cup {<<>>}, block : Nat]
      BY <2>2 DEF TypeOK, Steps
    <3>3. job' \in [off : Nat, len : Nat] /\ staging' \in Contents
      BY <1>2, <1>3, <1>4, <1>8 DEF TypeOK
    <3> QED
      BY <1>2, <1>8, <3>1, <3>2, <3>3 DEF TypeOK
  <2>5. Before(n)'
    BY <1>1, <1>2, <1>8, <2>3, Zenon DEF Before, InPlace
  <2>6. /\ ctx'.state = "dfuDNLOAD_SYNC" /\ ctx'.off = ctx.off + xfer
        /\ job'.off = ctx.off
    BY <1>6, <1>8, <2>1
  <2>7. Polling'
    BY <1>1, <1>2, <1>3, <2>3, <2>5, <2>6 DEF Polling
  <2> QED
    BY <1>1, <2>3, <2>4, <2>6, <2>7 DEF Sending, Receiving, Session, Writing
<1> QED
  BY <1>2, <1>7, <1>8

LEMMA WriteDoneStep ==
    ASSUME DfuInv, WriteDone
    PROVE  DfuInv'
<1> USE DfuAssumption DEF DfuAssumption, DfuInv
<1>1. PICK ok \in BOOLEAN : /\ flash' = Programmed(job.off, staging, ok)
                            /\ ctx' = dfu_write_done(ctx, Verdict(job.off, ok))
  BY DEF WriteDone
<1> DEFINE verdict == Verdict(job.off, ok)
<1>2. /\ ctx.state = "dfuDNLOAD_SYNC" /\ tool.step \in {"start", "probe", "poll"}
      /\ job' = NoJob /\ UNCHANGED <<last, staging, xfer, tool>>
  BY DEF WriteDone, Writing
<1>3. verdict \in {"OK", "errADDRESS"}
  BY DEF Verdict
<1>4. ctx' = [state |-> IF verdict = "OK" THEN "dfuDNLOAD_IDLE" ELSE "dfuERROR",
              status |-> verdict, off |-> ctx.off]
  <2>1. ctx = [state |-> "dfuDNLOAD_SYNC", status |-> ctx.status, off |-> ctx.off]
    BY <1>2 DEF TypeOK
  <2> QED
    BY <1>1, <1>3, <2>1, WriteDoneFacts
<1> HIDE DEF verdict
<1>5. CASE tool.step = "poll"
  <2>1. /\ Before(tool.block + 1) /\ staging = Block(tool.image, tool.block + 1, TRUE)
        /\ job.off = tool.block * SectorSize
        /\ ctx.off = job.off + tool.image[tool.block + 1]
    BY <1>2, <1>5 DEF Polling
  <2>2. tool' \in [step : {"poll", "failed"}, image : {tool.image}, block : {tool.block}]
        /\ tool'.step = "poll"
    BY <1>2, <1>5 DEF TypeOK
  <2>3. xfer' \in Nat /\ staging' \in Contents
    BY <1>2 DEF TypeOK
  <2> QED
    BY <1>1, <1>2, <1>4, <1>5, <2>1, <2>2, <2>3, ProgrammedStep DEF verdict
<1>6. CASE tool.step \in {"start", "probe"}
  <2>1. ctx'.state \in {"dfuDNLOAD_IDLE", "dfuERROR"} /\ (ctx'.state = "dfuERROR" => ctx'.status # "OK")
        /\ ctx' \in [state : States, status : Statuses, off : Nat]
    BY <1>3, <1>4 DEF States, Statuses, TypeOK
  <2>2. flash' \in [0..Sectors - 1 -> Contents]
    BY <1>1, ProgrammedType DEF TypeOK
  <2>3. TypeOK'
    BY <1>2, <2>1, <2>2 DEF TypeOK, NoJob
  <2> QED
    BY <1>2, <1>6, <2>1, <2>3 DEF Sending, Receiving, Polling, Session, Writing
<1> QED
  BY <1>2, <1>5, <1>6

-----------------------------------------------------------------------------
(* The theorems                                                            *)

LEMMA DfuStepInv == DfuInv /\ [DfuNext]_dfuVars => DfuInv'
<1> SUFFICES ASSUME DfuInv, [DfuNext]_dfuVars PROVE DfuInv'
  OBVIOUS
<1>1. ASSUME NEW toLoader, Reset(toLoader) PROVE DfuInv'
  BY <1>1, RestartStep DEF Reset, DfuInv, TypeOK
<1>2. CASE PowerFailure
  <2>1. \E content \in {Erased, Foreign} :
          flash' = [flash EXCEPT ![ctx.off \div SectorSize] = content]
    BY <1>2 DEF PowerFailure
  <2>2. Erased \in Contents /\ Foreign \in Contents
    BY DEF Contents, Erased, Foreign
  <2>3. flash' \in [0..Sectors - 1 -> Contents]
    BY <2>1, <2>2 DEF DfuInv, TypeOK
  <2> QED
    BY <1>2, <2>3, RestartStep DEF PowerFailure
<1>3. CASE UNCHANGED dfuVars
  BY <1>3, Frame DEF dfuVars
<1> QED
  BY <1>1, <1>2, <1>3, HostStartStep, DnloadStep, DataStageStep, WriteDoneStep, GetStatusStep,
     ProbingStep, HostQuitsStep DEF DfuNext, Detach

LEMMA DfuInvariant == DfuSpec => []DfuInv
BY DfuInitInv, DfuStepInv, PTL DEF DfuSpec

\* A download that is reported done is in flash, whole, in order and with no
\* short block in the middle, for any images and any sectors
\* (main-kinetis.c:18 and dfu.c).
THEOREM DownloadsAreExact == DfuSpec => []DownloadExact
BY DfuInvariant, DfuInvImplies, PTL

\* The device's offset keeps step with the acknowledged blocks, and they are
\* in flash (dfu.c).
THEOREM BlocksAreKept == DfuSpec => []BlocksKept
BY DfuInvariant, DfuInvImplies, PTL

\* After an error nothing is written, and only what the tool or a reset does
\* ends it (dfu.c:9 and the requests of dfu_handle_control).
THEOREM ErrorsStick == DfuSpec => ErrorSticks
<1> DEFINE Stuck == ctx.state = "dfuERROR" =>
                      /\ ctx.status # "OK"
                      /\ flash' = flash
                      /\ ctx'.state = "dfuERROR"
                         \/ (tool.step = "clear" /\ ctx'.status = "OK")
                         \/ (tool.step = "probe" /\ ctx'.state = "dfuIDLE")
                         \/ (tool'.step = "start" /\ ctx' = FreshCtx)
<1>1. DfuInv /\ [DfuNext]_dfuVars => Stuck
  <2> SUFFICES ASSUME DfuInv, [DfuNext]_dfuVars, ctx.state = "dfuERROR" PROVE Stuck
    OBVIOUS
  <2>1. /\ ctx.status # "OK" /\ job = NoJob
        /\ tool.step \notin {"abort", "data", "send"}
        /\ ctx \in [state : States, status : Statuses, off : Nat]
    BY DEF DfuInv, TypeOK, Sending, Receiving, Session, Writing
  <2>2. ASSUME NEW toLoader, Reset(toLoader) PROVE Stuck
    BY <2>1, <2>2 DEF Reset, Restart, FreshTool
  <2>3. CASE ClrStatus
    BY <2>1, <2>3 DEF ClrStatus
  <2>4. CASE SetInterface
    BY <2>1, <2>4 DEF SetInterface
  <2>5. ~Dnload /\ ~DataStage /\ ~WriteDone /\ ~Abort /\ ~PowerFailure
    BY <2>1 DEF Dnload, DataStage, WriteDone, Abort, PowerFailure
  <2>6. ASSUME UNCHANGED <<ctx, flash>> PROVE Stuck
    BY <2>1, <2>6
  <2>7. CASE \/ \E image \in Images : HostStart(image)
             \/ GetStatus \/ HostQuits \/ UNCHANGED dfuVars
    BY <2>6, <2>7 DEF HostStart, GetStatus, HostQuits, dfuVars
  <2> QED
    BY <2>2, <2>3, <2>4, <2>5, <2>7 DEF DfuNext, Detach
<1>2. DfuSpec => [][Stuck]_dfuVars
  BY <1>1, DfuInvariant, PTL DEF DfuSpec
<1> QED
  BY <1>2 DEF ErrorSticks
=============================================================================
