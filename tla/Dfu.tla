-------------------------------- MODULE Dfu --------------------------------
(***************************************************************************)
(* Firmware download: the DFU class src/src/usb/dfu.c, the boot loader     *)
(* src/bootloader/usb-dfu/main-kinetis.c around it, the flash it programs, *)
(* the detach request of the application (src/src/usb/dfu-app.c), and a    *)
(* host tool that downloads an image block by block.                       *)
(*                                                                         *)
(* A control transfer is one action, or two when it has a data stage: that *)
(* transfers arrive whole is what UsbControl shows.  A block is its image  *)
(* and its number; in flash and in the staging buffer it comes with        *)
(* whether the rest of the sector is blank (0xff).                         *)
(***************************************************************************)
EXTENDS Naturals, Sequences

CONSTANTS
    SectorSize,   \* FLASH_SECTOR_SIZE
    Sectors,      \* sectors from _app_rom to the end of the flash
    Images        \* what tools send: each a sequence of block lengths

ASSUME DfuAssumption ==
    /\ SectorSize \in Nat \ {0, 1}
    /\ Sectors \in Nat \ {0}
    /\ Images \subseteq Seq(1..SectorSize + 1) \ {<<>>}

VARIABLES
    mode,     \* the program that runs: "app" or "loader"
    ctx,      \* struct dfu_ctx: state, status and off
    last,     \* setup_write's static flag: the short block has come
    staging,  \* the buffer a block is received into
    flash,    \* the contents of each sector of the application
    xfer,     \* the length of a DNLOAD whose data stage is under way, or 0
    job,      \* an asynchronous write in progress: its offset and length
    tool      \* the tool: its step, its image and the blocks acknowledged

dfuVars == <<mode, ctx, last, staging, flash, xfer, job, tool>>

-----------------------------------------------------------------------------
(* Flash and buffers                                                       *)

Erased == [image |-> <<>>, block |-> 0, blank |-> TRUE]
Foreign == [image |-> <<>>, block |-> 0, blank |-> FALSE]
Block(image, k, blank) == [image |-> image, block |-> k, blank |-> blank]
NoJob == [off |-> 0, len |-> 0]

FreshCtx == [state |-> "dfuIDLE", status |-> "OK", off |-> 0]
FreshTool == [step |-> "start", image |-> <<>>, block |-> 0]

\* Where flash_program_sector can write.
Programmable(off) == off % SectorSize = 0 /\ off \div SectorSize < Sectors

\* The flash after flash_program_sector of content at off: an error in the
\* middle leaves the sector erased.
Programmed(off, content, ok) ==
    IF ~Programmable(off) THEN flash
    ELSE [flash EXCEPT ![off \div SectorSize] = IF ok THEN content ELSE Erased]

Verdict(off, ok) == IF ok /\ Programmable(off) THEN "OK" ELSE "errADDRESS"

-----------------------------------------------------------------------------
(* dfu.c                                                                   *)

\* Where the end of a write leads.
AfterWrite(state) ==
    CASE state = "dfuDNLOAD_SYNC" -> "dfuDNLOAD_IDLE"
      [] state = "dfuMANIFEST_SYNC" -> "dfuIDLE"
      [] OTHER -> state

\* Mutant: the error is not recorded.
dfu_write_done_silent(c, err) ==
    [c EXCEPT !.state = IF err = "OK" THEN AfterWrite(@) ELSE "dfuERROR"]

\* Mutant: the end of the last write is not recorded.
dfu_write_done_endless(c, err) ==
    [c EXCEPT !.status = err,
              !.state = IF err # "OK" THEN "dfuERROR"
                        ELSE IF @ = "dfuDNLOAD_SYNC" THEN "dfuDNLOAD_IDLE" ELSE @]

dfu_write_done(c, err) ==
    [c EXCEPT !.status = err,
              !.state = IF err = "OK" THEN AfterWrite(@) ELSE "dfuERROR"]

\* The end of a download request of len bytes with the result of finish_write;
\* the transfer is refused when it leaves the state dfuERROR.
dfu_dnload_complete(c, len, result) ==
    LET d == [c EXCEPT !.off = @ + len]
    IN IF result = "async" THEN d ELSE dfu_write_done(d, result)

\* The tool after a transfer: a refused one is the end of its session.
After(c, step) ==
    tool' = [tool EXCEPT !.step = IF c.state = "dfuERROR" THEN "failed" ELSE step]

\* setup_write: too long, or a block after the short one.
SetupRefuses(len, isLast) == len > SectorSize \/ (isLast /\ len # 0)

\* Mutant: the short block ends up on top of the one before it.
SetupStaging_kept(len) == staging

SetupStaging(len) == IF len # SectorSize THEN Erased ELSE staging

\* Mutant: a download goes on where the last one stopped.
StartOffset_kept(c) == c.off

StartOffset(c) == IF c.state = "dfuIDLE" THEN 0 ELSE c.off

\* The tool's next block, 0 for the request that ends the download.
NextLen == IF tool.block = Len(tool.image) THEN 0 ELSE tool.image[tool.block + 1]

Dnload ==
    LET len == NextLen
        off == StartOffset(ctx)
        isLast == last /\ off # 0
        c == [ctx EXCEPT !.off = off, !.status = "OK"]
    IN
    /\ mode = "loader" /\ tool.step = "send"
    /\ IF ctx.state \notin {"dfuIDLE", "dfuDNLOAD_IDLE"}
       THEN /\ ctx' = [ctx EXCEPT !.state = "dfuERROR",
                                  !.status = "errSTALLEDPKT"]
            /\ After(ctx', "poll")
            /\ UNCHANGED <<last, staging, xfer>>
       ELSE IF SetupRefuses(len, isLast)
       THEN /\ ctx' = [c EXCEPT !.state = "dfuERROR", !.status = "errADDRESS"]
            /\ After(ctx', "poll")
            /\ last' = IF len > SectorSize THEN last ELSE isLast
            /\ UNCHANGED <<staging, xfer>>
       ELSE /\ last' = (isLast \/ len # SectorSize)
            /\ staging' = SetupStaging(len)
            /\ xfer' = len
            /\ IF len > 0
               THEN /\ ctx' = [c EXCEPT !.state = "dfuDNLOAD_SYNC"]
                    /\ tool' = [tool EXCEPT !.step = "data"]
               ELSE /\ ctx' = dfu_dnload_complete(
                                 [c EXCEPT !.state = "dfuMANIFEST_SYNC"], 0, "OK")
                    /\ After(ctx', "poll")
    /\ UNCHANGED <<mode, flash, job>>

\* The data stage ends: the staging buffer holds the block.
ReceivedBlock ==
    Block(tool.image, tool.block + 1, xfer = SectorSize \/ staging = Erased)

\* finish_write programs the block and answers, or starts to and answers later.
DataStage ==
    /\ mode = "loader" /\ tool.step = "data"
    /\ xfer' = 0
    /\ staging' = ReceivedBlock
    /\ \/ \E ok \in BOOLEAN :
            /\ flash' = Programmed(ctx.off, ReceivedBlock, ok)
            /\ ctx' = dfu_dnload_complete(ctx, xfer, Verdict(ctx.off, ok))
            /\ UNCHANGED job
       \/ /\ job' = [off |-> ctx.off, len |-> xfer]
          /\ ctx' = dfu_dnload_complete(ctx, xfer, "async")
          /\ UNCHANGED flash
    /\ After(ctx', "poll")
    /\ UNCHANGED <<mode, last>>

\* The asynchronous write reports its end.
WriteDone ==
    /\ job # NoJob
    /\ job' = NoJob
    /\ \E ok \in BOOLEAN :
         /\ flash' = Programmed(job.off, staging, ok)
         /\ ctx' = dfu_write_done(ctx, Verdict(job.off, ok))
    /\ UNCHANGED <<mode, last, staging, xfer, tool>>

\* DFU_GETSTATUS: the tool decides by the state it is told.
ToolStep(state) ==
    IF tool.step = "probe"
    THEN CASE state = "dfuERROR" -> "clear"
           [] state = "dfuDNLOAD_IDLE" -> "abort"
           [] state = "dfuIDLE" -> "send"
           [] OTHER -> "probe"
    ELSE CASE state = "dfuERROR" -> "failed"
           [] state = "dfuDNLOAD_IDLE" -> "send"
           [] state = "dfuIDLE" -> "done"
           [] OTHER -> "poll"

GetStatus ==
    /\ mode = "loader" /\ tool.step \in {"probe", "poll"}
    /\ tool' = [tool EXCEPT
                  !.step = ToolStep(ctx.state),
                  !.block = IF tool.step = "poll" /\ ctx.state = "dfuDNLOAD_IDLE"
                            THEN @ + 1 ELSE @]
    /\ UNCHANGED <<mode, ctx, last, staging, flash, xfer, job>>

ClrStatus ==
    /\ mode = "loader" /\ tool.step = "clear"
    /\ ctx' = IF ctx.state = "dfuERROR"
              THEN [ctx EXCEPT !.state = "dfuIDLE", !.status = "OK"]
              ELSE [ctx EXCEPT !.state = "dfuERROR", !.status = "errSTALLEDPKT"]
    /\ After(ctx', "probe")
    /\ UNCHANGED <<mode, last, staging, flash, xfer, job>>

Abort ==
    /\ mode = "loader" /\ tool.step = "abort"
    /\ ctx' = IF ctx.state \in {"dfuIDLE", "dfuDNLOAD_IDLE"}
              THEN [ctx EXCEPT !.state = "dfuIDLE"]
              ELSE [ctx EXCEPT !.state = "dfuERROR", !.status = "errSTALLEDPKT"]
    /\ After(ctx', "probe")
    /\ UNCHANGED <<mode, last, staging, flash, xfer, job>>

\* SET_INTERFACE 0, at the start of a session.  Tools do not send it into an
\* asynchronous write: it would let the next block into the buffer.
SetInterface ==
    /\ mode = "loader" /\ tool.step = "probe" /\ job = NoJob
    /\ ctx' = [ctx EXCEPT !.state = "dfuIDLE"]
    /\ UNCHANGED <<mode, last, staging, flash, xfer, job, tool>>

-----------------------------------------------------------------------------
(* The tool's sessions, resets, and the application                        *)

HostStart(image) ==
    /\ mode = "loader" /\ tool.step \in {"start", "done", "failed"}
    /\ tool' = [step |-> "probe", image |-> image, block |-> 0]
    /\ UNCHANGED <<mode, ctx, last, staging, flash, xfer, job>>

\* The tool is stopped between two transfers.
HostQuits ==
    /\ tool.step \notin {"start", "data"}
    /\ tool' = FreshTool
    /\ UNCHANGED <<mode, ctx, last, staging, flash, xfer, job>>

\* Reset_Handler: the loader stays when it is asked for, by the reset button or
\* by the magic words, or when there is nothing to start.
Boots(toLoader, first) ==
    IF toLoader \/ first = Erased THEN "loader" ELSE "app"

Restart(toLoader) ==
    /\ mode' = Boots(toLoader, flash'[0])
    /\ ctx' = FreshCtx /\ last' = FALSE /\ staging' = Foreign
    /\ xfer' = 0 /\ job' = NoJob
    /\ tool' = FreshTool

\* reset_to_app on a USB reset, a power cycle, or the reset button.
Reset(toLoader) == UNCHANGED flash /\ Restart(toLoader)

\* The power fails while a sector is erased and programmed.
PowerFailure ==
    /\ tool.step = "data" /\ Programmable(ctx.off)
    /\ \E content \in {Erased, Foreign} :
         flash' = [flash EXCEPT ![ctx.off \div SectorSize] = content]
    /\ Restart(FALSE)

\* DFU_DETACH to the application: its status stage ends, detach_cb resets into
\* the loader.
Detach == mode = "app" /\ Reset(TRUE)

DfuInit ==
    /\ mode = "loader"
    /\ ctx = FreshCtx
    /\ last = FALSE
    /\ staging = Foreign
    /\ flash \in [0..Sectors - 1 -> {Erased, Foreign}]
    /\ xfer = 0
    /\ job = NoJob
    /\ tool = FreshTool

DfuNext ==
    \/ \E image \in Images : HostStart(image)
    \/ Dnload
    \/ DataStage
    \/ WriteDone
    \/ GetStatus
    \/ ClrStatus
    \/ Abort
    \/ SetInterface
    \/ HostQuits
    \/ \E button \in BOOLEAN : Reset(button)
    \/ PowerFailure
    \/ Detach

DfuSpec == DfuInit /\ [][DfuNext]_dfuVars

\* A tool goes on with its session, a write that was started ends.
DfuFairness ==
    /\ WF_dfuVars(Dnload \/ DataStage \/ GetStatus \/ ClrStatus \/ Abort)
    /\ WF_dfuVars(WriteDone)
DfuFairSpec == DfuSpec /\ DfuFairness

-----------------------------------------------------------------------------
(* Properties                                                              *)

\* The blocks 1..n of the tool's image are where they belong, and what a short
\* block leaves of its sector is blank.
InPlace(n) ==
    \A k \in 1..n : k <= Sectors /\ flash[k - 1] = Block(tool.image, k, TRUE)

\* A download the tool believes in is in flash, whole and in order; in
\* particular no image with a short block in the middle, or longer than the
\* flash, gets through (main-kinetis.c:18, "We only allow the last write to be
\* less than one sector size").
DownloadExact ==
    tool.step = "done" =>
        /\ InPlace(Len(tool.image))
        /\ \A k \in 1..Len(tool.image) - 1 : tool.image[k] = SectorSize

\* The device's offset keeps step with the blocks the tool was told are
\* written, whatever sessions, aborts and errors came before, and these blocks
\* are in flash.
BlocksKept ==
    tool.step = "send" =>
        /\ ctx.state = IF tool.block = 0 THEN "dfuIDLE" ELSE "dfuDNLOAD_IDLE"
        /\ tool.block > 0 =>
              ctx.off = (tool.block - 1) * SectorSize + tool.image[tool.block]
        /\ InPlace(tool.block)

\* After an error nothing is written until the tool has cleared it or selected
\* the interface again, or the device was reset; and the error has a cause.
ErrorSticks ==
    [][ctx.state = "dfuERROR" =>
          /\ ctx.status # "OK"
          /\ flash' = flash
          /\ ctx'.state = "dfuERROR"
             \/ (tool.step = "clear" /\ ctx'.status = "OK")
             \/ (tool.step = "probe" /\ ctx'.state = "dfuIDLE")
             \/ (tool'.step = "start" /\ ctx' = FreshCtx)]_dfuVars

\* Every session ends, in success or in an error the tool is told of, unless
\* somebody stops it.
SessionEnds == []<>(tool.step \in {"start", "done", "failed"})
=============================================================================
